---- MODULE Spec2Model ----
\* Calendar core of the schedule bot: Jalali validation and Jalali -> Gregorian
\* conversion (src/src/utils/persian.ts) and the odd/even week computation
\* (src/src/utils/persian.ts, src/src/handlers/commands.ts).
EXTENDS Integers, Sequences, FiniteSets, TLC

VARIABLES
    pc,       \* which call has been made on the drawn input
    jy, jm, jd,   \* the three arguments of isValidPersianDate / jalaliToGregorian
    valid,    \* the boolean isValidPersianDate returned
    greg,     \* what jalaliToGregorian returned
    date,     \* the Date handed to the week functions: [day, ms] (see MkDate)
    weekStart,\* the Date getStartOfWeekPersian returned
    status,   \* the string calculateWeekStatusForDate / getWeekStatus returned
    clock,    \* the clock reading (new Date()) a handler compared with
    reply,    \* which message a handler sent
    fresh,    \* whether the Date a call returned is a new object
    \* concurrent calls of the calendar functions
    call,     \* call[t]: the function task t called and its arguments
    frame,    \* frame[f]: the local variables of the activation record f
    tpc,      \* tpc[t]: the statement task t is at
    result,   \* result[t]: what task t's call returned
    \* parsePersianDate
    text,     \* the string handed to parsePersianDate, a sequence of characters
    parts,    \* <<p1, p2, p3>> of lines 57-59, or <<>> when it returned before
    parsed,   \* what parsePersianDate returned
    \* the parity computation
    locals,   \* the local variables getWeekStatus / calculateWeekStatusForDate
              \* ended with
    \* today's lessons
    todayIndex,   \* the index into ENGLISH_WEEKDAYS a handler computed
    picked,   \* the schedule a handler read today's lessons from
    \* the conversation states and the stored schedules
    userStates,   \* StateService.userStates of the bot at hand: a Map from
                  \* user ids to UserState
    dateNow,  \* Date.now(), in milliseconds from the first request
    spc,      \* the operation made last on the services
    out,      \* what that operation returned or did
    sent,     \* the webhook updates handled so far, with where each went
    update,   \* the message handed to handleStateBasedMessage
    stored,   \* the rows of the table user_schedules
    faults    \* the Supabase requests that answer with an error

\* the variables of the calendar calls
calendarVars ==
    <<pc, jy, jm, jd, valid, greg, date, weekStart, status, clock, reply, fresh>>

\* the variables of the concurrent calls
concVars == <<call, frame, tpc, result>>

\* the variables of parsePersianDate
parseVars == <<text, parts, parsed>>

\* the variables the parity computation does not touch
\* the variables of the services
serviceVars == <<userStates, dateNow, spc, out, sent, update, stored, faults>>

restVars == <<concVars, parseVars, todayIndex, picked, serviceVars>>

\* the variables the calendar calls other than the parity computation do not
\* touch
laterVars == <<locals, restVars>>

vars == <<calendarVars, laterVars>>

\* the concurrent calls before any task exists
IdleConc ==
    /\ call = <<>>
    /\ frame = <<>>
    /\ tpc = <<>>
    /\ result = <<>>

\* the value of "parsed" while parsePersianDate has not returned
NotParsed == [ok |-> FALSE, year |-> -1, month |-> -1, day |-> -1]

\* parsePersianDate before it is called
IdleParse ==
    /\ text = <<>>
    /\ parts = <<>>
    /\ parsed = NotParsed

\* the locals of a parity computation that has not run, or that threw
NoLocals ==
    [currentWeekStartDate |-> [day |-> 0, ms |-> 0],
     referenceWeekStartDate |-> [day |-> 0, ms |-> 0],
     daysDifference |-> 0, weeksPassed |-> 0, computed |-> FALSE]

IdleLocals == locals = NoLocals

\* no handler has looked up today's lessons
IdleToday ==
    /\ todayIndex = -1
    /\ picked = "none"

\* an absent value (undefined, null), and a present one
None == <<>>
Some(x) == <<x>>

\* what "out" holds before any operation
NoOut == [user |-> 0, state |-> None, flag |-> FALSE, route |-> "none",
          reply |-> "none"]

\* the services before any request
IdleService ==
    /\ userStates = <<>>
    /\ dateNow = 0
    /\ spc = "idle"
    /\ out = NoOut
    /\ sent = <<>>
    /\ update = None
    /\ stored = <<>>
    /\ faults = {}

IdleLater == IdleLocals /\ IdleConc /\ IdleParse /\ IdleToday /\ IdleService

\* the calendar calls when none is made
IdleCalendar ==
    /\ pc = "idle"
    /\ jy = [k |-> "int", v |-> 0]
    /\ jm = [k |-> "int", v |-> 0]
    /\ jd = [k |-> "int", v |-> 0]
    /\ valid = FALSE
    /\ greg = [kind |-> "null", gy |-> 0, gm |-> 0, gd |-> 0]
    /\ date = [day |-> 0, ms |-> 0]
    /\ weekStart = [day |-> 0, ms |-> 0]
    /\ status = ""
    /\ clock = [day |-> 0, ms |-> 0]
    /\ reply = ""
    /\ fresh = FALSE

-----------------------------------------------------------------------------
\* Bounds of the model (not program constants).

\* input years are drawn from 1300 - YearMargin .. 1500 + YearMargin
YearMargin == 1
\* input months are drawn from 0 .. MaxMonth
MaxMonth == 13
\* input days are drawn from 0 .. MaxDay
MaxDay == 32
\* input Dates are drawn from WeekWindow days either side of the reference day
WeekWindow == 400

-----------------------------------------------------------------------------
\* JavaScript numbers. A number is a record [k, v]: k = "int" is the integer v,
\* k = "frac" is the non-integer v + 1/2 (v >= 0), "nan" is NaN, "inf" is
\* Infinity.

Int_(v) == [k |-> "int", v |-> v]
Frac(v) == [k |-> "frac", v |-> v]
NaN == [k |-> "nan", v |-> 0]
Infinity == [k |-> "inf", v |-> 0]

\* Number.isInteger(x)
NumberIsInteger(x) == x.k = "int"

\* parseInt(String(x)): an integer prints as its digits; v + 1/2 prints as
\* "v.5" and parseInt stops at the point; "NaN" and "Infinity" start with no
\* digit and parse to NaN.
parseIntOfString(x) ==
    CASE x.k = "int" -> x
      [] x.k = "frac" -> Int_(x.v)
      [] OTHER -> NaN

\* isNaN(x)
isNaN(x) == x.k = "nan"

\* a % b of JavaScript on integers: the remainder has the sign of a
JsRem(a, b) == IF a >= 0 THEN a % b ELSE -((-a) % b)

\* Math.floor(a / b) for integers a and b > 0
MathFloorDiv(a, b) == a \div b

-----------------------------------------------------------------------------
\* src/src/utils/persian.ts: isValidPersianDate

\* the leap test with one remainder of the list mistyped (21 for 22)
isLeapYear_Wrong21(year) == JsRem(year, 33) \in {1, 5, 9, 13, 17, 21, 26, 30}

\* the leap test of line 15-16: [1, 5, 9, 13, 17, 22, 26, 30].includes(year % 33)
isLeapYear(year) == JsRem(year, 33) \in {1, 5, 9, 13, 17, 22, 26, 30}

\* isValidPersianDate coercing its arguments with parseInt(String(x)), as
\* jalaliToGregorian does, where line 10 rejects non-integers: every
\* comparison with NaN is false, so NaN passes all the range tests
isValidPersianDate_Coerces(year, month, day) ==
    LET py == parseIntOfString(year)
        pm == parseIntOfString(month)
        pd == parseIntOfString(day)
    IN IF isNaN(py) \/ isNaN(pm) \/ isNaN(pd)
       THEN TRUE
       ELSE LET y == py.v
                m == pm.v
                d == pd.v
            IN IF y < 1300 \/ y > 1500 \/ m < 1 \/ m > 12 \/ d < 1 THEN FALSE
               ELSE IF m <= 6 /\ d > 31 THEN FALSE
               ELSE IF m >= 7 /\ m <= 11 /\ d > 30 THEN FALSE
               ELSE IF m = 12 /\ d > (IF isLeapYear(y) THEN 30 ELSE 29) THEN FALSE
               ELSE TRUE

isValidPersianDate(year, month, day) ==
    IF ~NumberIsInteger(year) \/ ~NumberIsInteger(month) \/ ~NumberIsInteger(day)
    THEN FALSE
    ELSE LET y == year.v
             m == month.v
             d == day.v
         IN IF y < 1300 \/ y > 1500 \/ m < 1 \/ m > 12 \/ d < 1 THEN FALSE
            ELSE IF m <= 6 /\ d > 31 THEN FALSE
            ELSE IF m >= 7 /\ m <= 11 /\ d > 30 THEN FALSE
            ELSE IF m = 12 /\ d > (IF isLeapYear(y) THEN 30 ELSE 29) THEN FALSE
            ELSE TRUE

-----------------------------------------------------------------------------
\* src/src/utils/persian.ts: parsePersianDate, from the three numeric parts on

NoPersianDate == [ok |-> FALSE, year |-> 0, month |-> 0, day |-> 0]
PersianDate(year, month, day) == [ok |-> TRUE, year |-> year, month |-> month, day |-> day]

\* the four rules with YYYY/DD/MM tried before YYYY/MM/DD
parsePersianDateOfParts_DayMonthFirst(p1, p2, p3) ==
    IF isNaN(p1) \/ isNaN(p2) \/ isNaN(p3) THEN NoPersianDate
    ELSE LET a == p1.v
             b == p2.v
             c == p3.v
             read ==
                 IF a >= 1300 /\ a <= 1500 /\ c >= 1 /\ c <= 12 /\ b >= 1 /\ b <= 31
                 THEN PersianDate(a, c, b)
                 ELSE IF a >= 1300 /\ a <= 1500 /\ b >= 1 /\ b <= 12 /\ c >= 1 /\ c <= 31
                 THEN PersianDate(a, b, c)
                 ELSE IF c >= 1300 /\ c <= 1500 /\ b >= 1 /\ b <= 12 /\ a >= 1 /\ a <= 31
                 THEN PersianDate(c, b, a)
                 ELSE IF a >= 0 /\ a <= 99 /\ b >= 1 /\ b <= 12 /\ c >= 1 /\ c <= 31
                 THEN PersianDate(1400 + a, b, c)
                 ELSE NoPersianDate
         IN IF ~read.ok THEN NoPersianDate
            ELSE IF ~isValidPersianDate(Int_(read.year), Int_(read.month), Int_(read.day))
            THEN NoPersianDate
            ELSE read

\* the four rules without the isValidPersianDate test of line 80
parsePersianDateOfParts_NoValidation(p1, p2, p3) ==
    IF isNaN(p1) \/ isNaN(p2) \/ isNaN(p3) THEN NoPersianDate
    ELSE LET a == p1.v
             b == p2.v
             c == p3.v
         IN IF a >= 1300 /\ a <= 1500 /\ b >= 1 /\ b <= 12 /\ c >= 1 /\ c <= 31
            THEN PersianDate(a, b, c)
            ELSE IF c >= 1300 /\ c <= 1500 /\ b >= 1 /\ b <= 12 /\ a >= 1 /\ a <= 31
            THEN PersianDate(c, b, a)
            ELSE IF a >= 1300 /\ a <= 1500 /\ c >= 1 /\ c <= 12 /\ b >= 1 /\ b <= 31
            THEN PersianDate(a, c, b)
            ELSE IF a >= 0 /\ a <= 99 /\ b >= 1 /\ b <= 12 /\ c >= 1 /\ c <= 31
            THEN PersianDate(1400 + a, b, c)
            ELSE NoPersianDate

\* lines 61-81: p1, p2, p3 are the parseInt of the three parts of the text
parsePersianDateOfParts(p1, p2, p3) ==
    IF isNaN(p1) \/ isNaN(p2) \/ isNaN(p3) THEN NoPersianDate
    ELSE LET a == p1.v
             b == p2.v
             c == p3.v
             read ==
                 IF a >= 1300 /\ a <= 1500 /\ b >= 1 /\ b <= 12 /\ c >= 1 /\ c <= 31
                 THEN PersianDate(a, b, c)
                 ELSE IF c >= 1300 /\ c <= 1500 /\ b >= 1 /\ b <= 12 /\ a >= 1 /\ a <= 31
                 THEN PersianDate(c, b, a)
                 ELSE IF a >= 1300 /\ a <= 1500 /\ c >= 1 /\ c <= 12 /\ b >= 1 /\ b <= 31
                 THEN PersianDate(a, c, b)
                 ELSE IF a >= 0 /\ a <= 99 /\ b >= 1 /\ b <= 12 /\ c >= 1 /\ c <= 31
                 THEN PersianDate(1400 + a, b, c)
                 ELSE NoPersianDate
         IN IF ~read.ok THEN NoPersianDate
            ELSE IF ~isValidPersianDate(Int_(read.year), Int_(read.month), Int_(read.day))
            THEN NoPersianDate
            ELSE read

-----------------------------------------------------------------------------
\* src/src/utils/persian.ts lines 29-86: parsePersianDate on a string.  A
\* string is the sequence of its characters; "fa0" .. "fa9" stand for the
\* Persian digits (U+06F0 .. U+06F9), "ar0" .. "ar9" for the Arabic-Indic
\* digits (U+0660 .. U+0669), "U+00A9" and "U+00DB" for the copyright sign
\* and the letter U with circumflex.

LatinDigits == <<"0", "1", "2", "3", "4", "5", "6", "7", "8", "9">>
PersianDigits == <<"fa0", "fa1", "fa2", "fa3", "fa4", "fa5", "fa6", "fa7", "fa8", "fa9">>
ArabicDigits == <<"ar0", "ar1", "ar2", "ar3", "ar4", "ar5", "ar6", "ar7", "ar8", "ar9">>

IsIn(c, chars) == \E i \in 1 .. Len(chars) : chars[i] = c
IndexIn(c, chars) == CHOOSE i \in 1 .. Len(chars) : chars[i] = c

IsLatinDigit(c) == IsIn(c, LatinDigits)

\* the number a Latin digit stands for
DigitValue(c) == IndexIn(c, LatinDigits) - 1

\* line 35: the character class of persianArabicDigits.  As stored, the
\* class is written with the UTF-8 bytes of the Persian and Arabic-Indic
\* digits read as Windows-1252: it is U with circumflex, the range from the
\* degree sign to it, superscript one, U with grave, the range from the
\* no-break space to it, and the copyright sign, that is U+00A0 .. U+00DB.
\* No Persian or Arabic-Indic digit is in it.
MatchesPersianArabicDigits(c) == c \in {"U+00A9", "U+00DB"}

\* lines 36-39 and 40: String(digitMap[d]) for a matched character d; the
\* keys of digitMap are strings of two characters, so digitMap[d] is
\* undefined
StringOfDigitMap(d) == <<"u", "n", "d", "e", "f", "i", "n", "e", "d">>

\* line 32: String.prototype.trim
RECURSIVE TrimStart(_)
TrimStart(str) ==
    IF str # <<>> /\ Head(str) = " " THEN TrimStart(Tail(str)) ELSE str

RECURSIVE TrimEnd(_)
TrimEnd(str) ==
    IF str # <<>> /\ str[Len(str)] = " "
    THEN TrimEnd(SubSeq(str, 1, Len(str) - 1))
    ELSE str

trim(str) == TrimEnd(TrimStart(str))

\* line 40: every match of persianArabicDigits replaced by String(digitMap[d])
RECURSIVE ReplacePersianArabicDigits(_)
ReplacePersianArabicDigits(str) ==
    IF str = <<>> THEN <<>>
    ELSE (IF MatchesPersianArabicDigits(Head(str))
          THEN StringOfDigitMap(Head(str))
          ELSE <<Head(str)>>) \o ReplacePersianArabicDigits(Tail(str))

\* line 41: replace(/[^\d\/\-\.]/g, '')
IsDigitOrSeparator(c) == IsLatinDigit(c) \/ c \in {"/", "-", "."}
KeepDigitsAndSeparators(str) == SelectSeq(str, IsDigitOrSeparator)

\* String.prototype.includes for one character
includes(str, c) == IsIn(c, str)

\* String.prototype.split for a one-character separator
RECURSIVE split(_, _)
split(str, sep) ==
    IF str = <<>> THEN << <<>> >>
    ELSE IF Head(str) = sep THEN << <<>> >> \o split(Tail(str), sep)
    ELSE LET rest == split(Tail(str), sep)
         IN << <<Head(str)>> \o Head(rest) >> \o Tail(rest)

\* /^\d{n}$/.test(str) together with str.length === n
IsDigitsOfLength(str, n) ==
    Len(str) = n /\ \A i \in 1 .. n : IsLatinDigit(str[i])

\* the longest prefix of str made of digits
RECURSIVE LeadingDigits(_)
LeadingDigits(str) ==
    IF str # <<>> /\ IsLatinDigit(Head(str))
    THEN <<Head(str)>> \o LeadingDigits(Tail(str))
    ELSE <<>>

\* the number a non-empty digit string denotes
RECURSIVE ValueOfDigits(_)
ValueOfDigits(digits) ==
    IF digits = <<>> THEN 0
    ELSE 10 * ValueOfDigits(SubSeq(digits, 1, Len(digits) - 1))
         + DigitValue(digits[Len(digits)])

\* parseInt(str, 10) on a string of digits and separators: an optional sign,
\* then the longest run of digits; NaN when there is none
parseInt10(str) ==
    LET negative == str # <<>> /\ Head(str) = "-"
        body == IF negative THEN Tail(str) ELSE str
        digits == LeadingDigits(body)
    IN IF digits = <<>> THEN NaN
       ELSE IF negative THEN Int_(0 - ValueOfDigits(digits))
       ELSE Int_(ValueOfDigits(digits))

\* what a run of parsePersianDate leaves: the numbers of lines 57-59, when it
\* got that far, and the value it returned
ParseRun(ps, value) == [parts |-> ps, value |-> value]

\* lines 55-81, from the array "parts" on
parsePersianDateAfterSplit(partStrings) ==
    IF Len(partStrings) # 3 THEN ParseRun(<<>>, NoPersianDate)
    ELSE LET OfParts(p1, p2, p3) ==
                 ParseRun(<<p1, p2, p3>>, parsePersianDateOfParts(p1, p2, p3))
         IN OfParts(parseInt10(partStrings[1]), parseInt10(partStrings[2]),
                    parseInt10(partStrings[3]))

\* lines 30-53: the cleaning of the string and the choice of the separator;
\* nothing in the try block throws
parsePersianDateRun(dateStr) ==
    IF dateStr = <<>> THEN ParseRun(<<>>, NoPersianDate)
    ELSE LET Parts(cleaned) ==
                 IF includes(cleaned, "/") THEN Some(split(cleaned, "/"))
                 ELSE IF includes(cleaned, "-") THEN Some(split(cleaned, "-"))
                 ELSE IF includes(cleaned, ".") THEN Some(split(cleaned, "."))
                 ELSE IF IsDigitsOfLength(cleaned, 8)
                 THEN Some(<<SubSeq(cleaned, 1, 4), SubSeq(cleaned, 5, 6),
                             SubSeq(cleaned, 7, 8)>>)
                 ELSE IF IsDigitsOfLength(cleaned, 6)
                 THEN Some(<<<<"1", "4">> \o SubSeq(cleaned, 1, 2),
                             SubSeq(cleaned, 3, 4), SubSeq(cleaned, 5, 6)>>)
                 ELSE None
             AfterSplit(partStrings) ==
                 IF partStrings = None THEN ParseRun(<<>>, NoPersianDate)
                 ELSE parsePersianDateAfterSplit(partStrings[1])
         IN AfterSplit(Parts(
                KeepDigitsAndSeparators(ReplacePersianArabicDigits(trim(dateStr)))))

\* lines 29-86: the value parsePersianDate returns
parsePersianDate(dateStr) == parsePersianDateRun(dateStr).value

\* the texts one part of an input is drawn from
InputPartTexts ==
    {<<"1", "4", "0", "3">>, <<"1", "5", "0", "1">>,
     <<"fa1", "fa4", "fa0", "fa4">>,
     <<"0", "5">>, <<"1", "2">>, <<"1", "3">>, <<"3", "1">>, <<"3", "2">>,
     <<"9", "9">>, <<"ar3">>, <<" ", "U+00A9", "7", " ">>,
     <<>>, <<"-", "5">>, <<"1", ".", "5">>}

\* what stands between two parts
InputSeparators == {<<"/">>, <<"-">>, <<".">>, <<>>, <<" ", "/", " ">>}

InputTexts ==
    {a \o s1 \o b \o s2 \o c :
        a \in InputPartTexts, s1 \in InputSeparators,
        b \in InputPartTexts, s2 \in InputSeparators, c \in InputPartTexts}

InitParse ==
    /\ IdleCalendar
    /\ IdleLocals
    /\ IdleConc
    /\ IdleToday
    /\ IdleService
    /\ text \in InputTexts
    /\ parts = <<>>
    /\ parsed = NotParsed

\* a caller evaluates parsePersianDate(text)
CallParsePersianDate ==
    /\ parsed = NotParsed
    /\ \E run \in {parsePersianDateRun(text)} :
          /\ parts' = run.parts
          /\ parsed' = run.value
    /\ UNCHANGED <<text, calendarVars, locals, concVars, todayIndex, picked, serviceVars>>

NextParse == CallParsePersianDate

SpecParse == InitParse /\ [][NextParse]_vars

-----------------------------------------------------------------------------
\* src/src/utils/persian.ts: jalaliToGregorian

\* What a call produced: null, a [gy, gm, gd] array, or an exception that left
\* the function.
NULL == [kind |-> "null", gy |-> 0, gm |-> 0, gd |-> 0]
Thrown == [kind |-> "throw", gy |-> 0, gm |-> 0, gd |-> 0]
Triple(gy, gm, gd) == [kind |-> "triple", gy |-> gy, gm |-> gm, gd |-> gd]

\* the month-length table without its leading 0: the loop of line 133 then
\* ends with a month counted from 0
sal_a_NoLeadingZero(gy) ==
    <<31,
      IF (JsRem(gy, 4) = 0 /\ JsRem(gy, 100) # 0) \/ JsRem(gy, 400) = 0
      THEN 29 ELSE 28,
      31, 30, 31, 30, 31, 31, 30, 31, 30, 31, 0>>

\* line 130: the month-length table of Gregorian year gy, sal_a[0] .. sal_a[12]
\* (the TLA+ sequence is 1-based: sal_a[i] of the source is sal_a(gy)[i + 1])
sal_a(gy) ==
    <<0, 31,
      IF (JsRem(gy, 4) = 0 /\ JsRem(gy, 100) # 0) \/ JsRem(gy, 400) = 0
      THEN 29 ELSE 28,
      31, 30, 31, 30, 31, 31, 30, 31, 30, 31>>

\* line 133: for (gm = 0; gm < 13 && gd > sal_a[gm]; gm++) gd -= sal_a[gm];
\* the value is the pair <<gm, gd>> the loop ends with
RECURSIVE MonthLoop(_, _, _)
MonthLoop(gm, gd, sal) ==
    IF gm < 13 /\ gd > sal[gm + 1]
    THEN MonthLoop(gm + 1, gd - sal[gm + 1], sal)
    ELSE <<gm, gd>>

\* lines 109-129 on integer arguments: gy and gd as the month loop finds them
jalaliToGregorianBeforeLoop(jy0, jm0, jd0) ==
    LET gy0 == IF jy0 <= 979 THEN 621 ELSE 1600
        jy1 == jy0 - (IF jy0 <= 979 THEN 0 ELSE 979)
        days0 == 365 * jy1 + MathFloorDiv(jy1, 33) * 8
                 + MathFloorDiv(JsRem(jy1, 33) + 3, 4) + 78 + jd0
                 + (IF jm0 < 7 THEN (jm0 - 1) * 31 ELSE (jm0 - 7) * 30 + 186)
        gy1 == gy0 + 400 * MathFloorDiv(days0, 146097)
        days1 == JsRem(days0, 146097)
        \* lines 118-122
        century == days1 > 36524
        gy2 == IF century THEN gy1 + 100 * MathFloorDiv(days1 - 1, 36524) ELSE gy1
        days2a == IF century THEN JsRem(days1 - 1, 36524) ELSE days1
        days2 == IF century /\ days2a >= 365 THEN days2a + 1 ELSE days2a
        \* lines 124-127
        gy3 == gy2 + 4 * MathFloorDiv(days2, 1461)
        days3 == JsRem(days2, 1461)
        gy4 == gy3 + MathFloorDiv(days3 - 1, 365)
        days4 == JsRem(days3 - 1, 365)
        \* line 129
        gd0 == days4 + 1
    IN [gy |-> gy4, gd |-> gd0]

\* lines 109-135 on integer arguments
jalaliToGregorianInt(jy0, jm0, jd0) ==
    LET AfterLoop(gy, end) == Triple(gy, end[1], end[2])
        Loop(b) == AfterLoop(b.gy, MonthLoop(0, b.gd, sal_a(b.gy)))
    IN Loop(jalaliToGregorianBeforeLoop(jy0, jm0, jd0))

\* lines 100-107: the coercions and the guard; "throw" is the Error of line 106
jalaliToGregorianTry(y, m, d) ==
    LET py == parseIntOfString(y)
        pm == parseIntOfString(m)
        pd == parseIntOfString(d)
    IN IF isNaN(py) \/ isNaN(pm) \/ isNaN(pd)
       THEN Thrown
       ELSE jalaliToGregorianInt(py.v, pm.v, pd.v)

\* jalaliToGregorian without the try/catch: the Error of line 106 leaves it
jalaliToGregorian_NoCatch(y, m, d) == jalaliToGregorianTry(y, m, d)

\* lines 99-140: the catch of line 136 turns every exception into null
jalaliToGregorian(y, m, d) ==
    LET Catch(r) == IF r.kind = "throw" THEN NULL ELSE r
    IN Catch(jalaliToGregorianTry(y, m, d))

-----------------------------------------------------------------------------
\* JavaScript Date. A Date is [day, ms]: the instant day * MS_PER_DAY + ms
\* milliseconds after 1970-01-01T00:00:00Z, with 0 <= ms < MS_PER_DAY. The
\* two parts are kept apart because the millisecond count itself does not fit
\* the model checker's integers; every operation below is exact on the pair.

\* src/unnamed/part_001 line 13
MS_PER_DAY == 24 * 60 * 60 * 1000

MkDate(day, ms) == [day |-> day, ms |-> ms]

\* ECMAScript MakeDay for a month in 1..12: the day number of year-month-day
\* counted from 1970-01-01 (days and months beyond a month's or year's end
\* carry, as in the Gregorian proleptic calendar)
DaysFromCivil(y, m, d) ==
    LET yy == IF m <= 2 THEN y - 1 ELSE y
        era == yy \div 400
        yoe == yy - era * 400
        mp == IF m > 2 THEN m - 3 ELSE m + 9
        doy == (153 * mp + 2) \div 5 + d - 1
        doe == yoe * 365 + yoe \div 4 - yoe \div 100 + doy
    IN era * 146097 + doe - 719468

\* ECMAScript YearFromTime / MonthFromTime / DateFromTime of a day number:
\* <<year, month 1..12, day of month>>
CivilFromDays(n) ==
    LET z == n + 719468
        era == z \div 146097
        doe == z - era * 146097
        yoe == (doe - doe \div 1460 + doe \div 36524 - doe \div 146096) \div 365
        doy == doe - (365 * yoe + yoe \div 4 - yoe \div 100)
        mp == (5 * doy + 2) \div 153
        d == doy - (153 * mp + 2) \div 5 + 1
        m == IF mp < 10 THEN mp + 3 ELSE mp - 9
        y == yoe + era * 400 + (IF m <= 2 THEN 1 ELSE 0)
    IN <<y, m, d>>

\* new Date(Date.UTC(year, monthIndex, day)): monthIndex is 0-based and any
\* integer (month -1 is December of the year before), day any integer
DateUTC(year, monthIndex, day) ==
    LET ym == year + (monthIndex \div 12)
        mn == monthIndex % 12
    IN MkDate(DaysFromCivil(ym, mn + 1, 1) + day - 1, 0)

\* date.getUTCDay(): Sunday = 0 .. Saturday = 6 (1970-01-01 was a Thursday)
getUTCDay(d) == (d.day + 4) % 7

\* date.getUTCDate(): the day of the month
getUTCDate(d) == CivilFromDays(d.day)[3]

\* date.setUTCDate(dt): the same UTC year, month and time of day, day of month
\* dt (any integer)
setUTCDate(d, dt) ==
    LET InMonthOf(c) == MkDate(DaysFromCivil(c[1], c[2], 1) + dt - 1, d.ms)
    IN InMonthOf(CivilFromDays(d.day))

\* date.setUTCHours(0, 0, 0, 0)
setUTCHours0(d) == MkDate(d.day, 0)

\* Math.floor((a.getTime() - b.getTime()) / msPerDay) with msPerDay = MS_PER_DAY:
\* ((a.day - b.day) * MS_PER_DAY + (a.ms - b.ms)) / MS_PER_DAY, floored
FloorDaysBetween(a, b) == (a.day - b.day) + MathFloorDiv(a.ms - b.ms, MS_PER_DAY)

-----------------------------------------------------------------------------
\* src/unnamed/part_001 lines 18-21: the reference point of the week computation

REFERENCE_PERSIAN_YEAR == 1403
REFERENCE_PERSIAN_MONTH == 11
REFERENCE_PERSIAN_DAY == 20

\* the two week labels and the error label of src/unnamed/part_001 line 21
\* and src/src/handlers/commands.ts lines 719 and 724, in Latin letters
FARD == "fard"
ZOJ == "zoj"
ERROR_STATUS == "namoshakhas (khata)"

\* The string literals of src/src/utils/persian.ts are stored as the UTF-8
\* bytes of the Persian words read as Windows-1252 and encoded again: lines
\* 212 and 217 hold other strings than the Persian words of the constants
\* and of commands.ts.  They are named here by the word they were meant to be.
FARD_AsWindows1252 == "fard (UTF-8 bytes as Windows-1252)"
ZOJ_AsWindows1252 == "zoj (UTF-8 bytes as Windows-1252)"
ERROR_STATUS_AsWindows1252 == "namoshakhas (khata) (UTF-8 bytes as Windows-1252)"

REFERENCE_STATUS == FARD

-----------------------------------------------------------------------------
\* getStartOfWeekPersian with the "% 7" of line 171 left out: a Saturday is
\* moved a whole week back
getStartOfWeekPersian_NoMod7(d) ==
    LET targetDate == MkDate(d.day, d.ms)
        dayOfWeekUTC == getUTCDay(targetDate)
        daysToSubtract == dayOfWeekUTC + 1
        moved == setUTCDate(targetDate, getUTCDate(targetDate) - daysToSubtract)
    IN setUTCHours0(moved)

\* getStartOfWeekPersian with line 173 (setUTCHours) left out
getStartOfWeekPersian_KeepsTime(d) ==
    LET targetDate == MkDate(d.day, d.ms)
        dayOfWeekUTC == getUTCDay(targetDate)
        daysToSubtract == (dayOfWeekUTC + 1) % 7
    IN setUTCDate(targetDate, getUTCDate(targetDate) - daysToSubtract)

\* getStartOfWeekPersian adding the days of line 172 instead of subtracting
getStartOfWeekPersian_AddsDays(d) ==
    LET targetDate == MkDate(d.day, d.ms)
        dayOfWeekUTC == getUTCDay(targetDate)
        daysToSubtract == (dayOfWeekUTC + 1) % 7
        moved == setUTCDate(targetDate, getUTCDate(targetDate) + daysToSubtract)
    IN setUTCHours0(moved)

\* the handler's copy with line 736 (setUTCHours) left out
CommandHandler_getStartOfWeekPersian_KeepsTime(d) ==
    LET targetDate == MkDate(d.day, d.ms)
        dayOfWeekUTC == getUTCDay(targetDate)
        daysToSubtract == (dayOfWeekUTC + 1) % 7
    IN setUTCDate(targetDate, getUTCDate(targetDate) - daysToSubtract)

\* the handler's copy with daysToSubtract = dayOfWeekUTC: weeks start on Sunday
CommandHandler_getStartOfWeekPersian_SundayStart(d) ==
    LET targetDate == MkDate(d.day, d.ms)
        dayOfWeekUTC == getUTCDay(targetDate)
        daysToSubtract == dayOfWeekUTC
        moved == setUTCDate(targetDate, getUTCDate(targetDate) - daysToSubtract)
    IN setUTCHours0(moved)

\* Date objects are mutable: setUTCDate and setUTCHours change the object they
\* are called on.  A run of getStartOfWeekPersian is described by the objects
\* it leaves behind, heap.date (the caller's argument) and, when line 169 made
\* one, heap.targetDate, and by ret, the name of the object it returns.

\* line 169 as "const targetDate = date": both names denote the caller's object
getStartOfWeekPersianRun_NoCopy(d) ==
    LET heap0 == [date |-> d]
        dayOfWeekUTC == getUTCDay(heap0.date)
        daysToSubtract == (dayOfWeekUTC + 1) % 7
        heap1 == [heap0 EXCEPT
                    !.date = setUTCDate(@, getUTCDate(@) - daysToSubtract)]
        heap2 == [heap1 EXCEPT !.date = setUTCHours0(@)]
    IN [heap |-> heap2, ret |-> "date"]

\* src/src/utils/persian.ts lines 168-175: getStartOfWeekPersian, statement by
\* statement on the objects
getStartOfWeekPersianRun(d) ==
    LET heap0 == [date |-> d, targetDate |-> MkDate(d.day, d.ms)]
        dayOfWeekUTC == getUTCDay(heap0.targetDate)
        daysToSubtract == (dayOfWeekUTC + 1) % 7
        heap1 == [heap0 EXCEPT
                    !.targetDate = setUTCDate(@, getUTCDate(@) - daysToSubtract)]
        heap2 == [heap1 EXCEPT !.targetDate = setUTCHours0(@)]
    IN [heap |-> heap2, ret |-> "targetDate"]

\* src/src/handlers/commands.ts lines 731-738: the handler's private copy,
\* statement by statement on the objects
CommandHandler_getStartOfWeekPersianRun(d) ==
    LET heap0 == [date |-> d, targetDate |-> MkDate(d.day, d.ms)]
        dayOfWeekUTC == getUTCDay(heap0.targetDate)
        daysToSubtract == (dayOfWeekUTC + 1) % 7
        heap1 == [heap0 EXCEPT
                    !.targetDate = setUTCDate(@, getUTCDate(@) - daysToSubtract)]
        heap2 == [heap1 EXCEPT !.targetDate = setUTCHours0(@)]
    IN [heap |-> heap2, ret |-> "targetDate"]

\* the caller's argument as a run leaves it
ArgumentAfter(run) == run.heap.date

\* whether the returned object is another object than the caller's argument
ReturnsOtherObject(run) == run.ret # "date"

\* src/src/utils/persian.ts lines 168-175: the value getStartOfWeekPersian
\* returns
getStartOfWeekPersian(d) ==
    LET Returned(run) == run.heap[run.ret]
    IN Returned(getStartOfWeekPersianRun(d))

\* src/src/handlers/commands.ts lines 731-738: the value the handler's private
\* copy returns
CommandHandler_getStartOfWeekPersian(d) ==
    LET Returned(run) == run.heap[run.ret]
    IN Returned(CommandHandler_getStartOfWeekPersianRun(d))

\* the status choice with the arms of the inner conditional swapped
StatusOfWeeksPassed_SwappedArms(weeksPassed) ==
    IF JsRem(weeksPassed, 2) = 0
    THEN REFERENCE_STATUS
    ELSE IF REFERENCE_STATUS = ZOJ THEN ZOJ ELSE FARD

\* the status choice testing weeksPassed % 2 === 1 for the flipped week: the
\* remainder of a negative odd number is -1
StatusOfWeeksPassed_RemIsOne(weeksPassed) ==
    IF JsRem(weeksPassed, 2) = 1
    THEN (IF REFERENCE_STATUS = ZOJ THEN FARD ELSE ZOJ)
    ELSE REFERENCE_STATUS

\* commands.ts lines 717-719:
\* weeksPassed % 2 === 0 ? REFERENCE_STATUS
\*                        : REFERENCE_STATUS === "zoj" ? "fard" : "zoj"
StatusOfWeeksPassed(weeksPassed) ==
    IF JsRem(weeksPassed, 2) = 0
    THEN REFERENCE_STATUS
    ELSE IF REFERENCE_STATUS = ZOJ THEN FARD ELSE ZOJ

\* persian.ts lines 210-212: the same expression with the literals of that file
getWeekStatus_StatusOfWeeksPassed(weeksPassed) ==
    IF JsRem(weeksPassed, 2) = 0
    THEN REFERENCE_STATUS
    ELSE IF REFERENCE_STATUS = ZOJ_AsWindows1252
         THEN FARD_AsWindows1252
         ELSE ZOJ_AsWindows1252

\* persian.ts line 183 and commands.ts line 694: the reference converted
ReferenceGregorianArray ==
    jalaliToGregorian(Int_(REFERENCE_PERSIAN_YEAR), Int_(REFERENCE_PERSIAN_MONTH),
                      Int_(REFERENCE_PERSIAN_DAY))

\* the reference date built without the "- 1" on the month
ReferenceDateGregorian_NoMonthOffset(refGregorianArray) ==
    setUTCHours0(DateUTC(refGregorianArray.gy, refGregorianArray.gm,
                         refGregorianArray.gd))

\* persian.ts lines 188-189 and commands.ts lines 699-700
ReferenceDateGregorian(refGregorianArray) ==
    setUTCHours0(DateUTC(refGregorianArray.gy, refGregorianArray.gm - 1,
                         refGregorianArray.gd))

\* src/src/handlers/commands.ts lines 691-726 with the three reference
\* constants as parameters; the throw of line 696 is caught at line 722 and
\* gives the error label
calculateWeekStatusForDateWith(ry, rm, rd, targetDate) ==
    LET From(refGregorianArray) ==
            IF refGregorianArray.kind # "triple"
            THEN ERROR_STATUS
            ELSE LET REFERENCE_DATE_GREGORIAN == ReferenceDateGregorian(refGregorianArray)
                     currentWeekStartDate == CommandHandler_getStartOfWeekPersian(targetDate)
                     referenceWeekStartDate ==
                         CommandHandler_getStartOfWeekPersian(REFERENCE_DATE_GREGORIAN)
                     daysDifference == FloorDaysBetween(currentWeekStartDate,
                                                        referenceWeekStartDate)
                     weeksPassed == MathFloorDiv(daysDifference, 7)
                 IN StatusOfWeeksPassed(weeksPassed)
    IN From(jalaliToGregorian(ry, rm, rd))

\* commands.ts lines 706-715: the local variables of the same computation
calculateWeekStatusForDateLocals(targetDate) ==
    LET Locals(currentWeekStartDate, referenceWeekStartDate, daysDifference) ==
            [currentWeekStartDate |-> currentWeekStartDate,
             referenceWeekStartDate |-> referenceWeekStartDate,
             daysDifference |-> daysDifference,
             weeksPassed |-> MathFloorDiv(daysDifference, 7),
             computed |-> TRUE]
        Starts(currentWeekStartDate, referenceWeekStartDate) ==
            Locals(currentWeekStartDate, referenceWeekStartDate,
                   FloorDaysBetween(currentWeekStartDate, referenceWeekStartDate))
        From(refGregorianArray) ==
            IF refGregorianArray.kind # "triple"
            THEN NoLocals
            ELSE Starts(CommandHandler_getStartOfWeekPersian(targetDate),
                        CommandHandler_getStartOfWeekPersian(
                            ReferenceDateGregorian(refGregorianArray)))
    IN From(ReferenceGregorianArray)

\* src/src/handlers/commands.ts lines 691-726: calculateWeekStatusForDate
calculateWeekStatusForDate(targetDate) ==
    calculateWeekStatusForDateWith(Int_(REFERENCE_PERSIAN_YEAR),
                                   Int_(REFERENCE_PERSIAN_MONTH),
                                   Int_(REFERENCE_PERSIAN_DAY), targetDate)

\* DateTime.now().setZone("Asia/Tehran") of persian.ts line 195: Tehran civil
\* time is UTC+03:30 all year (no daylight saving since 2022)
TehranOffsetMs == (3 * 60 + 30) * 60 * 1000

\* persian.ts lines 195-197: the Tehran calendar date of the instant now, as
\* the Date at UTC midnight of that date
todayTehranAsUTC(now) ==
    LET local == MkDate(now.day + ((now.ms + TehranOffsetMs) \div MS_PER_DAY),
                        (now.ms + TehranOffsetMs) % MS_PER_DAY)
        c == CivilFromDays(local.day)
    IN setUTCHours0(DateUTC(c[1], c[2] - 1, c[3]))

\* src/src/utils/persian.ts lines 180-219 at the instant now, with the three
\* reference constants as parameters; the throw of line 185 is caught at line
\* 215 and gives the error label
getWeekStatusWith(ry, rm, rd, now) ==
    LET From(refGregorianArray) ==
            IF refGregorianArray.kind # "triple"
            THEN ERROR_STATUS_AsWindows1252
            ELSE LET REFERENCE_DATE_GREGORIAN == ReferenceDateGregorian(refGregorianArray)
                     currentWeekStartDate == getStartOfWeekPersian(todayTehranAsUTC(now))
                     referenceWeekStartDate == getStartOfWeekPersian(REFERENCE_DATE_GREGORIAN)
                     daysDifference == FloorDaysBetween(currentWeekStartDate,
                                                        referenceWeekStartDate)
                     weeksPassed == MathFloorDiv(daysDifference, 7)
                 IN getWeekStatus_StatusOfWeeksPassed(weeksPassed)
    IN From(jalaliToGregorian(ry, rm, rd))

\* persian.ts lines 198-208: the local variables of the same computation
getWeekStatusLocals(now) ==
    LET Locals(currentWeekStartDate, referenceWeekStartDate, daysDifference) ==
            [currentWeekStartDate |-> currentWeekStartDate,
             referenceWeekStartDate |-> referenceWeekStartDate,
             daysDifference |-> daysDifference,
             weeksPassed |-> MathFloorDiv(daysDifference, 7),
             computed |-> TRUE]
        Starts(currentWeekStartDate, referenceWeekStartDate) ==
            Locals(currentWeekStartDate, referenceWeekStartDate,
                   FloorDaysBetween(currentWeekStartDate, referenceWeekStartDate))
        From(refGregorianArray) ==
            IF refGregorianArray.kind # "triple"
            THEN NoLocals
            ELSE Starts(getStartOfWeekPersian(todayTehranAsUTC(now)),
                        getStartOfWeekPersian(ReferenceDateGregorian(refGregorianArray)))
    IN From(ReferenceGregorianArray)

\* src/src/utils/persian.ts lines 180-219: getWeekStatus, at the instant now
getWeekStatus(now) ==
    getWeekStatusWith(Int_(REFERENCE_PERSIAN_YEAR), Int_(REFERENCE_PERSIAN_MONTH),
                      Int_(REFERENCE_PERSIAN_DAY), now)

\* src/src/handlers/commands.ts line 236:
\* currentWeekStatus.includes("khata") || currentWeekStatus.includes("namoshakhas"),
\* the two words in Persian letters; of the strings the status functions
\* return, only the error label of commands.ts line 724 holds either word
IncludesErrorWords(currentWeekStatus) == currentWeekStatus = ERROR_STATUS

\* src/src/handlers/commands.ts lines 233-266: which message handleWeek sends
\* for the status getWeekStatus gave it
handleWeekReply(currentWeekStatus) ==
    IF IncludesErrorWords(currentWeekStatus) THEN "error" ELSE "week"

-----------------------------------------------------------------------------
\* src/src/handlers/messages.ts lines 233-244: the message handler's
\* calculateWeekStatusForDate

\* the message handler's computation with the reference a day earlier,
\* new Date('2024-02-09')
MessageHandler_calculateWeekStatusForDate_Feb9(targetDate) ==
    LET refDate == DateUTC(2024, 1, 9)
        daysDiff == FloorDaysBetween(targetDate, refDate)
        weeksPassed == MathFloorDiv(daysDiff, 7)
    IN IF JsRem(weeksPassed, 2) = 0 THEN FARD ELSE ZOJ

\* new Date('2024-02-10') is UTC midnight of that day; nothing in the try
\* block throws
MessageHandler_calculateWeekStatusForDate(targetDate) ==
    LET refDate == DateUTC(2024, 1, 10)
        daysDiff == FloorDaysBetween(targetDate, refDate)
        weeksPassed == MathFloorDiv(daysDiff, 7)
    IN IF JsRem(weeksPassed, 2) = 0 THEN FARD ELSE ZOJ

-----------------------------------------------------------------------------
\* src/src/handlers/commands.ts lines 558-652: handleTeleport

\* targetDate <= now of line 598, on Dates
DateLte(a, b) == a.day < b.day \/ (a.day = b.day /\ a.ms <= b.ms)

\* what handleTeleport reports: the message sent (reply), the array
\* jalaliToGregorian returned (greg), targetDate and the week status put in
\* the message
TeleportOutcome(message, gregorianArray, targetDate, weekStatus) ==
    [reply |-> message, greg |-> gregorianArray, targetDate |-> targetDate,
     weekStatus |-> weekStatus]

\* lines 596-647: from targetDate on
handleTeleportTarget(gregorianArray, targetDate, now) ==
    IF DateLte(targetDate, now)
    THEN TeleportOutcome("past", gregorianArray, targetDate, "")
    ELSE TeleportOutcome("teleport", gregorianArray, targetDate,
                         calculateWeekStatusForDate(targetDate))

\* lines 590-595: from the converted date on
handleTeleportConverted(gregorianArray, now) ==
    IF gregorianArray.kind # "triple"
    THEN TeleportOutcome("invalid", gregorianArray, MkDate(0, 0), "")
    ELSE handleTeleportTarget(gregorianArray,
                              DateUTC(gregorianArray.gy, gregorianArray.gm - 1,
                                      gregorianArray.gd),
                              now)

\* lines 583-589: from the parsed date on
handleTeleportParsed(parsedDate, now) ==
    IF ~parsedDate.ok
    THEN TeleportOutcome("invalid", NULL, MkDate(0, 0), "")
    ELSE handleTeleportConverted(jalaliToGregorian(Int_(parsedDate.year),
                                                   Int_(parsedDate.month),
                                                   Int_(parsedDate.day)),
                                 now)

\* handleTeleport on the text "/teleport x1/x2/x3" when the clock reads now
handleTeleport(x1, x2, x3, now) ==
    handleTeleportParsed(parsePersianDateOfParts(parseIntOfString(x1),
                                                 parseIntOfString(x2),
                                                 parseIntOfString(x3)),
                         now)

-----------------------------------------------------------------------------
\* The inputs the calls are made on.

InputYears == (1300 - YearMargin) .. (1500 + YearMargin)
InputMonths == 0 .. MaxMonth
InputDays == 0 .. MaxDay

\* numbers that are not all integers: NaN, Infinity, halves, and two integers
\* to combine them with
OddNumbers == {NaN, Infinity, Frac(1403), Frac(6), Int_(1403), Int_(6)}

\* the UTC day number of 2025-02-08, the Gregorian date of the reference
RefDay == DaysFromCivil(2025, 2, 8)

InputDayNumbers == (RefDay - WeekWindow) .. (RefDay + WeekWindow)

\* times of day: midnight, one millisecond after, noon, the last millisecond
\* before and the first of the Tehran day (20:30 UTC), the last of the UTC day
InputTimesOfDay ==
    {0, 1, 12 * 60 * 60 * 1000, MS_PER_DAY - TehranOffsetMs - 1,
     MS_PER_DAY - TehranOffsetMs, MS_PER_DAY - 1}

\* clock readings for the handlers that compare with new Date(): noon of the
\* reference day, and a moment of 2026-11-02
InputClocks == {MkDate(RefDay, 12 * 60 * 60 * 1000), MkDate(DaysFromCivil(2026, 11, 2), 1)}

NoDate == MkDate(0, 0)

-----------------------------------------------------------------------------
\* Calls of the calendar converter on one drawn triple.

Init ==
    /\ pc = "start"
    /\ \/ \E y \in InputYears, m \in InputMonths, d \in InputDays :
             /\ jy = Int_(y)
             /\ jm = Int_(m)
             /\ jd = Int_(d)
       \/ /\ jy \in OddNumbers
          /\ jm \in OddNumbers
          /\ jd \in OddNumbers
    /\ valid = FALSE
    /\ greg = NULL
    /\ date = NoDate
    /\ weekStart = NoDate
    /\ status = ""
    /\ clock = NoDate
    /\ reply = ""
    /\ fresh = FALSE
    /\ IdleLater

\* a caller evaluates isValidPersianDate(jy, jm, jd)
CallIsValidPersianDate ==
    /\ pc = "start"
    /\ valid' = isValidPersianDate(jy, jm, jd)
    /\ pc' = "validated"
    /\ UNCHANGED <<jy, jm, jd, greg, date, weekStart, status, clock, reply, fresh, laterVars>>

\* a caller evaluates jalaliToGregorian(jy, jm, jd)
CallJalaliToGregorian ==
    /\ pc = "start"
    /\ greg' = jalaliToGregorian(jy, jm, jd)
    /\ pc' = "converted"
    /\ UNCHANGED <<jy, jm, jd, valid, date, weekStart, status, clock, reply, fresh, laterVars>>

\* the user sends "/teleport jy/jm/jd" when the clock reads c
CallHandleTeleport ==
    /\ pc = "start"
    /\ \E c \in InputClocks :
          \E r \in {handleTeleport(jy, jm, jd, c)} :
             /\ clock' = c
             /\ reply' = r.reply
             /\ greg' = r.greg
             /\ date' = r.targetDate
             /\ status' = r.weekStatus
    /\ pc' = "teleported"
    /\ UNCHANGED <<jy, jm, jd, valid, weekStart, fresh, laterVars>>

Next ==
    \/ CallIsValidPersianDate
    \/ CallJalaliToGregorian
    \/ CallHandleTeleport

Spec == Init /\ [][Next]_vars

-----------------------------------------------------------------------------
\* Calls of the week functions on one drawn Date.

InitWeek ==
    /\ pc = "start"
    /\ jy = Int_(REFERENCE_PERSIAN_YEAR)
    /\ jm = Int_(REFERENCE_PERSIAN_MONTH)
    /\ jd = Int_(REFERENCE_PERSIAN_DAY)
    /\ valid = FALSE
    /\ greg = NULL
    /\ \E n \in InputDayNumbers, t \in InputTimesOfDay : date = MkDate(n, t)
    /\ weekStart = NoDate
    /\ status = ""
    /\ clock = NoDate
    /\ reply = ""
    /\ fresh = FALSE
    /\ IdleLater

\* a caller evaluates getStartOfWeekPersian(date)
CallGetStartOfWeekPersian ==
    /\ pc = "start"
    /\ weekStart' = getStartOfWeekPersian(date)
    /\ \E run \in {getStartOfWeekPersianRun(date)} :
          /\ date' = ArgumentAfter(run)
          /\ fresh' = ReturnsOtherObject(run)
    /\ pc' = "weekStart"
    /\ UNCHANGED <<jy, jm, jd, valid, greg, status, clock, reply, laterVars>>

\* the command handler evaluates this.getStartOfWeekPersian(date)
CallCommandHandlerGetStartOfWeekPersian ==
    /\ pc = "start"
    /\ weekStart' = CommandHandler_getStartOfWeekPersian(date)
    /\ \E run \in {CommandHandler_getStartOfWeekPersianRun(date)} :
          /\ date' = ArgumentAfter(run)
          /\ fresh' = ReturnsOtherObject(run)
    /\ pc' = "weekStartCmd"
    /\ UNCHANGED <<jy, jm, jd, valid, greg, status, clock, reply, laterVars>>

\* the command handler evaluates this.calculateWeekStatusForDate(date)
CallCalculateWeekStatusForDate ==
    /\ pc = "start"
    /\ status' = calculateWeekStatusForDate(date)
    /\ locals' = calculateWeekStatusForDateLocals(date)
    /\ pc' = "calculated"
    /\ UNCHANGED <<jy, jm, jd, valid, greg, date, weekStart, clock, reply, fresh, restVars>>

\* a caller evaluates getWeekStatus() when the clock reads date
CallGetWeekStatus ==
    /\ pc = "start"
    /\ status' = getWeekStatus(date)
    /\ locals' = getWeekStatusLocals(date)
    /\ pc' = "gotStatus"
    /\ UNCHANGED <<jy, jm, jd, valid, greg, date, weekStart, clock, reply, fresh, restVars>>

\* the message handler evaluates this.calculateWeekStatusForDate(date)
CallMessageHandlerCalculateWeekStatusForDate ==
    /\ pc = "start"
    /\ status' = MessageHandler_calculateWeekStatusForDate(date)
    /\ pc' = "calculatedMsg"
    /\ UNCHANGED <<jy, jm, jd, valid, greg, date, weekStart, clock, reply, fresh, laterVars>>

\* src/src/index.ts lines 18-19: the handlers run in a Cloudflare Worker,
\* whose local time zone is UTC: the offset of local time from UTC
RuntimeOffsetMs == 0

\* Date.prototype.getDay: the weekday (0 = Sunday) of the local date
getDay(now) ==
    getUTCDay(MkDate(now.day + ((now.ms + RuntimeOffsetMs) \div MS_PER_DAY),
                     (now.ms + RuntimeOffsetMs) % MS_PER_DAY))

\* commands.ts lines 193-194 and callbacks.ts lines 180-181:
\* dayMapping[dayOfWeek]
dayMapping(dayOfWeek) == <<1, 2, 3, 4, 5, 6, 0>>[dayOfWeek + 1]

\* src/src/handlers/commands.ts lines 186-198: handleToday when the clock
\* reads date
CallHandleToday ==
    /\ pc = "start"
    /\ clock' = date
    /\ status' = getWeekStatus(date)
    /\ picked' = IF status' = FARD THEN "odd_week_schedule" ELSE "even_week_schedule"
    /\ todayIndex' = dayMapping(getDay(date))
    /\ pc' = "handledToday"
    /\ UNCHANGED <<jy, jm, jd, valid, greg, date, weekStart, reply, fresh,
                   locals, concVars, parseVars, serviceVars>>

\* src/src/handlers/commands.ts lines 233-266: handleWeek in a private chat
\* when the clock reads date
CallHandleWeek ==
    /\ pc = "start"
    /\ clock' = date
    /\ status' = getWeekStatus(date)
    /\ reply' = handleWeekReply(status')
    /\ IF IncludesErrorWords(status')
       THEN UNCHANGED <<todayIndex, picked>>
       ELSE /\ todayIndex' = (getDay(date) + 1) % 7
            /\ picked' = IF status' = ZOJ THEN "even_week_schedule"
                                          ELSE "odd_week_schedule"
    /\ pc' = "handledWeek"
    /\ UNCHANGED <<jy, jm, jd, valid, greg, date, weekStart, fresh,
                   locals, concVars, parseVars, serviceVars>>

\* src/src/handlers/callbacks.ts lines 167-186: handleMenuWeekStatus when the
\* clock reads date
CallHandleMenuWeekStatus ==
    /\ pc = "start"
    /\ clock' = date
    /\ status' = getWeekStatus(date)
    /\ picked' = IF status' = FARD THEN "odd_week_schedule" ELSE "even_week_schedule"
    /\ todayIndex' = dayMapping(getDay(date))
    /\ pc' = "handledMenu"
    /\ UNCHANGED <<jy, jm, jd, valid, greg, date, weekStart, reply, fresh,
                   locals, concVars, parseVars, serviceVars>>

NextWeek ==
    \/ CallGetStartOfWeekPersian
    \/ CallCommandHandlerGetStartOfWeekPersian
    \/ CallCalculateWeekStatusForDate
    \/ CallGetWeekStatus
    \/ CallMessageHandlerCalculateWeekStatusForDate
    \/ CallHandleToday
    \/ CallHandleWeek
    \/ CallHandleMenuWeekStatus

SpecWeek == InitWeek /\ [][NextWeek]_vars

-----------------------------------------------------------------------------
\* The week functions and handleWeek under reference constants that may be
\* misconfigured: jy, jm, jd hold REFERENCE_PERSIAN_YEAR / _MONTH / _DAY as the
\* build set them, the source's values or a value that is no number.

ReferenceConfigs ==
    {<<Int_(REFERENCE_PERSIAN_YEAR), Int_(REFERENCE_PERSIAN_MONTH), Int_(REFERENCE_PERSIAN_DAY)>>,
     <<NaN, Int_(REFERENCE_PERSIAN_MONTH), Int_(REFERENCE_PERSIAN_DAY)>>,
     <<Int_(REFERENCE_PERSIAN_YEAR), NaN, Int_(REFERENCE_PERSIAN_DAY)>>,
     <<Int_(REFERENCE_PERSIAN_YEAR), Int_(REFERENCE_PERSIAN_MONTH), NaN>>,
     <<Int_(REFERENCE_PERSIAN_YEAR), Infinity, Int_(REFERENCE_PERSIAN_DAY)>>}

InitCfg ==
    /\ pc = "start"
    /\ \E c \in ReferenceConfigs :
          /\ jy = c[1]
          /\ jm = c[2]
          /\ jd = c[3]
    /\ valid = FALSE
    /\ greg = NULL
    /\ \E n \in InputDayNumbers, t \in InputTimesOfDay : date = MkDate(n, t)
    /\ weekStart = NoDate
    /\ status = ""
    /\ clock = NoDate
    /\ reply = ""
    /\ fresh = FALSE
    /\ IdleLater

\* the command handler evaluates this.calculateWeekStatusForDate(date)
CfgCalculateWeekStatusForDate ==
    /\ pc = "start"
    /\ status' = calculateWeekStatusForDateWith(jy, jm, jd, date)
    /\ pc' = "cfgCalculated"
    /\ UNCHANGED <<jy, jm, jd, valid, greg, date, weekStart, clock, reply, fresh, laterVars>>

\* a caller evaluates getWeekStatus() when the clock reads date
CfgGetWeekStatus ==
    /\ pc = "start"
    /\ status' = getWeekStatusWith(jy, jm, jd, date)
    /\ pc' = "cfgGotStatus"
    /\ UNCHANGED <<jy, jm, jd, valid, greg, date, weekStart, clock, reply, fresh, laterVars>>

\* src/src/handlers/commands.ts lines 224-266: handleWeek when the clock
\* reads date
CfgHandleWeek ==
    /\ pc = "start"
    /\ clock' = date
    /\ status' = getWeekStatusWith(jy, jm, jd, date)
    /\ reply' = handleWeekReply(status')
    /\ pc' = "cfgHandledWeek"
    /\ UNCHANGED <<jy, jm, jd, valid, greg, date, weekStart, fresh, laterVars>>

NextCfg ==
    \/ CfgCalculateWeekStatusForDate
    \/ CfgGetWeekStatus
    \/ CfgHandleWeek

SpecCfg == InitCfg /\ [][NextCfg]_vars

-----------------------------------------------------------------------------
\* Concurrent calls of jalaliToGregorian, getStartOfWeekPersian and
\* calculateWeekStatusForDate, statement by statement.  Every variable the
\* three functions assign is declared inside the function (let / const /
\* parameter), so each call has an activation record of its own.

Tasks == {1, 2}

\* the three functions declaring their variables at module level: all calls
\* share one record
LocalsOf_ModuleLevel(t) == 0

\* the activation record of task t's call
LocalsOf(t) == t

JCall(y, m, d) ==
    [fn |-> "jalaliToGregorian", y |-> y, m |-> m, d |-> d, date |-> NoDate]
WCall(d) ==
    [fn |-> "getStartOfWeekPersian", y |-> NaN, m |-> NaN, d |-> NaN, date |-> d]
SCall(d) ==
    [fn |-> "calculateWeekStatusForDate", y |-> NaN, m |-> NaN, d |-> NaN,
     date |-> d]

\* the calls a task may make: conversions of a date of 2025, of the true
\* 2024-01-01, of the last day of a leap year and of NaN; week starts and
\* statuses of a Saturday midnight, a Friday evening and a Wednesday a week on
InputCalls ==
    {JCall(Int_(1403), Int_(11), Int_(20)), JCall(Int_(1402), Int_(10), Int_(11)),
     JCall(Int_(1403), Int_(12), Int_(30)), JCall(NaN, Int_(1), Int_(1)),
     WCall(MkDate(RefDay, 0)), WCall(MkDate(RefDay - 1, MS_PER_DAY - 1)),
     WCall(MkDate(RefDay + 11, 1)),
     SCall(MkDate(RefDay, 0)), SCall(MkDate(RefDay - 1, MS_PER_DAY - 1)),
     SCall(MkDate(RefDay + 11, 1))}

EmptyFrame ==
    [gy |-> 0, gm |-> 0, gd |-> 0, sal |-> <<>>,
     targetDate |-> NoDate, daysToSubtract |-> 0,
     REFERENCE_DATE_GREGORIAN |-> NoDate, currentWeekStartDate |-> NoDate,
     referenceWeekStartDate |-> NoDate, weeksPassed |-> 0]

InitConc ==
    /\ IdleCalendar
    /\ IdleLocals
    /\ IdleParse
    /\ IdleToday
    /\ IdleService
    /\ call \in [Tasks -> InputCalls]
    /\ frame = [f \in {LocalsOf(t) : t \in Tasks} |-> EmptyFrame]
    /\ tpc = [t \in Tasks |-> "call"]
    /\ result = [t \in Tasks |-> "none"]

\* task t goes to statement l, its record becoming fr
Goto(t, l, fr) ==
    /\ tpc' = [tpc EXCEPT ![t] = l]
    /\ frame' = [frame EXCEPT ![LocalsOf(t)] = fr]
    /\ UNCHANGED <<call, result, calendarVars, locals, parseVars, todayIndex, picked, serviceVars>>

\* task t returns r
Return(t, r) ==
    /\ tpc' = [tpc EXCEPT ![t] = "done"]
    /\ result' = [result EXCEPT ![t] = r]
    /\ UNCHANGED <<call, frame, calendarVars, locals, parseVars, todayIndex, picked, serviceVars>>

\* persian.ts lines 100-131: the coercions, the guard and the arithmetic up to
\* "let gm"; the Error of line 106 goes to the catch
JEnter(t) ==
    /\ tpc[t] = "call"
    /\ call[t].fn = "jalaliToGregorian"
    /\ LET c == call[t]
           py == parseIntOfString(c.y)
           pm == parseIntOfString(c.m)
           pd == parseIntOfString(c.d)
       IN IF isNaN(py) \/ isNaN(pm) \/ isNaN(pd)
          THEN Goto(t, "jCatch", frame[LocalsOf(t)])
          ELSE \E b \in {jalaliToGregorianBeforeLoop(py.v, pm.v, pd.v)} :
                  Goto(t, "jLoop",
                       [frame[LocalsOf(t)] EXCEPT
                          !.gy = b.gy, !.gd = b.gd, !.sal = sal_a(b.gy), !.gm = 0])

\* persian.ts line 133: one test of the loop condition, and one pass if it holds
JLoop(t) ==
    /\ tpc[t] = "jLoop"
    /\ LET fr == frame[LocalsOf(t)]
       IN IF fr.gm < 13 /\ fr.gd > fr.sal[fr.gm + 1]
          THEN Goto(t, "jLoop",
                    [fr EXCEPT !.gd = fr.gd - fr.sal[fr.gm + 1], !.gm = fr.gm + 1])
          ELSE Goto(t, "jReturn", fr)

\* persian.ts line 135
JReturn(t) ==
    /\ tpc[t] = "jReturn"
    /\ LET fr == frame[LocalsOf(t)]
       IN Return(t, Triple(fr.gy, fr.gm, fr.gd))

\* persian.ts lines 136-139
JCatch(t) ==
    /\ tpc[t] = "jCatch"
    /\ Return(t, NULL)

\* persian.ts line 169
WCopy(t) ==
    /\ tpc[t] = "call"
    /\ call[t].fn = "getStartOfWeekPersian"
    /\ Goto(t, "wDays",
            [frame[LocalsOf(t)] EXCEPT
               !.targetDate = MkDate(call[t].date.day, call[t].date.ms)])

\* persian.ts lines 170-171
WDays(t) ==
    /\ tpc[t] = "wDays"
    /\ LET fr == frame[LocalsOf(t)]
       IN Goto(t, "wSetDate",
               [fr EXCEPT !.daysToSubtract = (getUTCDay(fr.targetDate) + 1) % 7])

\* persian.ts line 172
WSetDate(t) ==
    /\ tpc[t] = "wSetDate"
    /\ LET fr == frame[LocalsOf(t)]
       IN Goto(t, "wSetHours",
               [fr EXCEPT !.targetDate =
                   setUTCDate(@, getUTCDate(@) - fr.daysToSubtract)])

\* persian.ts line 173
WSetHours(t) ==
    /\ tpc[t] = "wSetHours"
    /\ LET fr == frame[LocalsOf(t)]
       IN Goto(t, "wReturn", [fr EXCEPT !.targetDate = setUTCHours0(@)])

\* persian.ts line 174
WReturn(t) ==
    /\ tpc[t] = "wReturn"
    /\ Return(t, frame[LocalsOf(t)].targetDate)

\* commands.ts lines 694-704: the reference converted and made a Date; the
\* Error of line 696 is caught at line 722, which returns the error label
SReference(t) ==
    /\ tpc[t] = "call"
    /\ call[t].fn = "calculateWeekStatusForDate"
    /\ \E refGregorianArray \in {ReferenceGregorianArray} :
          IF refGregorianArray.kind # "triple"
          THEN Return(t, ERROR_STATUS)
          ELSE Goto(t, "sCurrent",
                    [frame[LocalsOf(t)] EXCEPT
                       !.REFERENCE_DATE_GREGORIAN =
                           ReferenceDateGregorian(refGregorianArray)])

\* commands.ts line 706
SCurrent(t) ==
    /\ tpc[t] = "sCurrent"
    /\ Goto(t, "sReferenceStart",
            [frame[LocalsOf(t)] EXCEPT
               !.currentWeekStartDate =
                   CommandHandler_getStartOfWeekPersian(call[t].date)])

\* commands.ts line 707
SReferenceStart(t) ==
    /\ tpc[t] = "sReferenceStart"
    /\ LET fr == frame[LocalsOf(t)]
       IN Goto(t, "sWeeks",
               [fr EXCEPT !.referenceWeekStartDate =
                   CommandHandler_getStartOfWeekPersian(fr.REFERENCE_DATE_GREGORIAN)])

\* commands.ts lines 713-715
SWeeks(t) ==
    /\ tpc[t] = "sWeeks"
    /\ LET fr == frame[LocalsOf(t)]
       IN Goto(t, "sReturn",
               [fr EXCEPT !.weeksPassed =
                   MathFloorDiv(FloorDaysBetween(fr.currentWeekStartDate,
                                                 fr.referenceWeekStartDate), 7)])

\* commands.ts lines 717-721
SReturn(t) ==
    /\ tpc[t] = "sReturn"
    /\ Return(t, StatusOfWeeksPassed(frame[LocalsOf(t)].weeksPassed))

NextConc ==
    \/ \E t \in Tasks : JEnter(t)
    \/ \E t \in Tasks : JLoop(t)
    \/ \E t \in Tasks : JReturn(t)
    \/ \E t \in Tasks : JCatch(t)
    \/ \E t \in Tasks : WCopy(t)
    \/ \E t \in Tasks : WDays(t)
    \/ \E t \in Tasks : WSetDate(t)
    \/ \E t \in Tasks : WSetHours(t)
    \/ \E t \in Tasks : WReturn(t)
    \/ \E t \in Tasks : SReference(t)
    \/ \E t \in Tasks : SCurrent(t)
    \/ \E t \in Tasks : SReferenceStart(t)
    \/ \E t \in Tasks : SWeeks(t)
    \/ \E t \in Tasks : SReturn(t)

SpecConc == InitConc /\ [][NextConc]_vars

\* what a call returns when it runs alone
Alone(c) ==
    CASE c.fn = "jalaliToGregorian" -> jalaliToGregorian(c.y, c.m, c.d)
      [] c.fn = "getStartOfWeekPersian" -> getStartOfWeekPersian(c.date)
      [] c.fn = "calculateWeekStatusForDate" -> calculateWeekStatusForDate(c.date)

-----------------------------------------------------------------------------
\* StateService (src/unnamed/part_004): the conversation states, kept in a Map
\* in the memory of the object.

Users == {1, 2}

\* the clock moves MaxTicks times, by TickMs (a minute) each time
MaxTicks == 8
TickMs == 60000

\* callbacks.ts line 678: the five minutes a state lives, 5 * 60 * 1000
FIVE_MINUTES == 300000

\* the variables of the calendar, which the services leave alone
calcVars == <<calendarVars, locals, concVars, parseVars, todayIndex, picked>>

\* src/src/types/index.ts lines 134-138: data and expireAt are optional
UserState(name, data, expireAt) ==
    [name |-> name, data |-> data, expireAt |-> expireAt]

\* Map.prototype.has, get, set and delete
MapHas(m, k) == k \in DOMAIN m
MapGet(m, k) == IF k \in DOMAIN m THEN Some(m[k]) ELSE None
MapSet(m, k, v) == [x \in (DOMAIN m) \cup {k} |-> IF x = k THEN v ELSE m[x]]
MapDelete(m, k) == [x \in (DOMAIN m) \ {k} |-> m[x]]

\* the truth value of an optional number: undefined and 0 are falsy
Truthy(n) == n # None /\ n[1] # 0

\* lines 12-19: getState, with the Map it leaves
getStateRun(m, userId, now) ==
    LET state == MapGet(m, userId)
    IN  IF state # None /\ Truthy(state[1].expireAt) /\ now > state[1].expireAt[1]
        THEN [userStates |-> MapDelete(m, userId), ret |-> None]
        ELSE [userStates |-> m, ret |-> state]

getState(m, userId, now) == getStateRun(m, userId, now).ret

\* lines 24-26
setState(m, userId, state) == MapSet(m, userId, state)

\* lines 31-33
deleteState(m, userId) == MapDelete(m, userId)

\* lines 59-67: updateUserState; updates is a Partial<UserState>, a record of
\* three optional fields
updateUserState(m, userId, updates, now) ==
    LET run == getStateRun(m, userId, now)
        currentState == run.ret
        newState ==
            UserState(
                IF updates.name # None /\ updates.name[1] # ""
                THEN updates.name[1]
                ELSE IF currentState # None /\ currentState[1].name # ""
                     THEN currentState[1].name
                     ELSE "",
                IF updates.data # None THEN updates.data
                ELSE IF currentState # None THEN currentState[1].data ELSE None,
                IF updates.expireAt # None THEN updates.expireAt
                ELSE IF currentState # None THEN currentState[1].expireAt ELSE None)
    IN  setState(run.userStates, userId, newState)

\* lines 72-74
hasPendingState(m, userId) == MapHas(m, userId)

\* the states the callers set: callbacks.ts lines 676-679 and the like, and
\* states that never expire
InputStateNames == {"awaiting_teleport_date", "awaiting_schedule_text"}
InputExpiries(now) == {None, Some(0), Some(now + FIVE_MINUTES)}
InputStates(now) ==
    {UserState(n, None, e) : n \in InputStateNames, e \in InputExpiries(now)}
InputUpdates(now) ==
    {[name |-> n, data |-> None, expireAt |-> e] :
        n \in {None, Some("broadcast_flow")},
        e \in {None, Some(now + FIVE_MINUTES)}}

InitState ==
    /\ IdleCalendar
    /\ IdleLater

Tick ==
    /\ dateNow < MaxTicks * TickMs
    /\ dateNow' = dateNow + TickMs
    /\ spc' = "tick"
    /\ out' = NoOut
    /\ UNCHANGED <<calcVars, userStates, sent, update, stored, faults>>

CallSetState ==
    \E u \in Users : \E s \in InputStates(dateNow) :
        /\ userStates' = setState(userStates, u, s)
        /\ spc' = "setState"
        /\ out' = [NoOut EXCEPT !.user = u, !.state = Some(s)]
        /\ UNCHANGED <<calcVars, dateNow, sent, update, stored, faults>>

CallGetState ==
    \E u \in Users : \E run \in {getStateRun(userStates, u, dateNow)} :
        /\ userStates' = run.userStates
        /\ spc' = "getState"
        /\ out' = [NoOut EXCEPT !.user = u, !.state = run.ret]
        /\ UNCHANGED <<calcVars, dateNow, sent, update, stored, faults>>

CallDeleteState ==
    \E u \in Users :
        /\ userStates' = deleteState(userStates, u)
        /\ spc' = "deleteState"
        /\ out' = [NoOut EXCEPT !.user = u]
        /\ UNCHANGED <<calcVars, dateNow, sent, update, stored, faults>>

CallUpdateUserState ==
    \E u \in Users : \E updates \in InputUpdates(dateNow) :
        /\ userStates' = updateUserState(userStates, u, updates, dateNow)
        /\ spc' = "updateUserState"
        /\ out' = [NoOut EXCEPT !.user = u, !.state = Some(userStates'[u])]
        /\ UNCHANGED <<calcVars, dateNow, sent, update, stored, faults>>

CallHasPendingState ==
    \E u \in Users :
        /\ spc' = "hasPendingState"
        /\ out' = [NoOut EXCEPT !.user = u,
                                !.flag = hasPendingState(userStates, u)]
        /\ UNCHANGED <<calcVars, userStates, dateNow, sent, update, stored, faults>>

NextState ==
    \/ Tick
    \/ CallSetState
    \/ CallGetState
    \/ CallDeleteState
    \/ CallUpdateUserState
    \/ CallHasPendingState

SpecState == InitState /\ [][NextState]_vars

-----------------------------------------------------------------------------
\* DatabaseService (src/src/services/database.ts): the schedules of the users,
\* one row of the table user_schedules per user.  A time is the string of its
\* characters.

\* src/unnamed/part_001 line 4
ENGLISH_WEEKDAYS == <<"saturday", "sunday", "monday", "tuesday", "wednesday">>

\* src/unnamed/part_001 line 24: SCHEDULE_TIME_REGEX.test(timeStr), the
\* pattern /^(?:[01]\d|2[0-3]|[89]):[0-5]\d$/
isValidTimeFormat(timeStr) ==
    \/ /\ Len(timeStr) = 5
       /\ \/ timeStr[1] \in {"0", "1"} /\ IsLatinDigit(timeStr[2])
          \/ timeStr[1] = "2" /\ timeStr[2] \in {"0", "1", "2", "3"}
       /\ timeStr[3] = ":"
       /\ timeStr[4] \in {"0", "1", "2", "3", "4", "5"}
       /\ IsLatinDigit(timeStr[5])
    \/ /\ Len(timeStr) = 4
       /\ timeStr[1] \in {"8", "9"}
       /\ timeStr[2] = ":"
       /\ timeStr[3] \in {"0", "1", "2", "3", "4", "5"}
       /\ IsLatinDigit(timeStr[4])

\* src/src/utils/persian.ts lines 264-285: parseTime, None for null
parseTime(timeStr) ==
    IF timeStr = <<>> \/ ~isValidTimeFormat(timeStr) THEN None
    ELSE LET hm == split(timeStr, ":")
             hours == ValueOfDigits(hm[1])
             minutes == ValueOfDigits(hm[2])
         IN  IF hours > 23 \/ minutes > 59 THEN None
             ELSE Some(hours * 60 + minutes)

\* database.ts lines 167 and 195: parseTime(a.start_time) ?? 9999
SortKey(lesson) ==
    LET minutes == parseTime(lesson.start_time)
    IN  IF minutes = None THEN 9999 ELSE minutes[1]

\* Array.prototype.sort with the comparator of lines 167 and 195; the sort is
\* stable
RECURSIVE InsertByStart(_, _)
InsertByStart(sorted, lesson) ==
    IF sorted = <<>> THEN <<lesson>>
    ELSE IF SortKey(lesson) < SortKey(Head(sorted)) THEN <<lesson>> \o sorted
    ELSE <<Head(sorted)>> \o InsertByStart(Tail(sorted), lesson)

RECURSIVE sortByStartTime(_)
sortByStartTime(lessons) ==
    IF lessons = <<>> THEN <<>>
    ELSE InsertByStart(sortByStartTime(SubSeq(lessons, 1, Len(lessons) - 1)),
                       lessons[Len(lessons)])

\* an object without properties: {}
EmptyObject == <<>>

\* lines 162-166: the lessons cleanSchedule keeps; lesson and location are
\* strings in every row the bot writes
IsCleanLesson(lesson) ==
    isValidTimeFormat(lesson.start_time) /\ isValidTimeFormat(lesson.end_time)

\* lines 158-173
cleanSchedule(schedule) ==
    [day \in {ENGLISH_WEEKDAYS[i] : i \in 1 .. Len(ENGLISH_WEEKDAYS)} |->
        IF day \in DOMAIN schedule
        THEN sortByStartTime(SelectSeq(schedule[day], IsCleanLesson))
        ELSE <<>>]

UserSchedule(odd, even) == [odd_week_schedule |-> odd, even_week_schedule |-> even]

\* lines 143-183: getUserSchedule on the rows, when the requests in fts fail
getUserSchedule(rows, userId, fts) ==
    LET data == MapGet(rows, userId)
    IN  IF "select" \in fts
        THEN UserSchedule(EmptyObject, EmptyObject)
        ELSE UserSchedule(
                 cleanSchedule(IF data # None THEN data[1].odd_week_schedule
                                              ELSE EmptyObject),
                 cleanSchedule(IF data # None THEN data[1].even_week_schedule
                                              ELSE EmptyObject))

\* lines 191-207: the row saveUserSchedule builds from the schedules it read
updatePayload(currentSchedules, weekType, day, lesson) ==
    LET scheduleField == IF weekType = "odd" THEN "odd_week_schedule"
                                             ELSE "even_week_schedule"
        otherField == IF weekType = "odd" THEN "even_week_schedule"
                                          ELSE "odd_week_schedule"
        daySchedule == IF day \in DOMAIN currentSchedules[scheduleField]
                       THEN currentSchedules[scheduleField][day]
                       ELSE <<>>
        updatedDaySchedule == sortByStartTime(daySchedule \o <<lesson>>)
        finalWeekSchedule == MapSet(currentSchedules[scheduleField], day,
                                    updatedDaySchedule)
    IN  [f \in {scheduleField, otherField} |->
            IF f = scheduleField THEN finalWeekSchedule
                                 ELSE currentSchedules[otherField]]

\* lines 209-219: the upsert, with the rows it leaves and whether it threw
upsert(rows, userId, payload, fts) ==
    IF "upsert" \in fts
    THEN [rows |-> rows, threw |-> TRUE]
    ELSE [rows |-> MapSet(rows, userId, payload), threw |-> FALSE]

\* lines 188-220: saveUserSchedule run without another request in between
saveUserSchedule(rows, userId, weekType, day, lesson, fts) ==
    upsert(rows, userId,
           updatePayload(getUserSchedule(rows, userId, fts), weekType, day, lesson),
           fts)

Lesson(name, start, end, location) ==
    [lesson |-> name, start_time |-> start, end_time |-> end,
     location |-> location]

\* the times of the lessons saved
InputStarts == {<<"0", "8", ":", "0", "0">>, <<"1", "0", ":", "0", "0">>}
EndOfLessons == <<"1", "2", ":", "0", "0">>

\* the rows at the start: no row, or a row with one lesson on Saturday of
\* the odd weeks
InputRows ==
    {<<>>,
     MapSet(<<>>, 1,
            UserSchedule(
                MapSet(EmptyObject, "saturday",
                       <<Lesson("lesson0", <<"9", ":", "0", "0">>, EndOfLessons,
                                "room")>>),
                EmptyObject))}

SaveCall(userId, weekType, day, lesson) ==
    [userId |-> userId, weekType |-> weekType, day |-> day, lesson |-> lesson]

\* two calls for user 1, task t saving the lesson named after it
InputSaves ==
    {[t \in Tasks |->
        SaveCall(1, w[t], d[t],
                 Lesson(IF t = 1 THEN "lesson1" ELSE "lesson2", s[t],
                        EndOfLessons, "room"))] :
        w \in [Tasks -> {"odd", "even"}],
        d \in [Tasks -> {"saturday", "sunday"}],
        s \in [Tasks -> InputStarts]}

InitDb ==
    /\ IdleCalendar
    /\ IdleLocals
    /\ IdleParse
    /\ IdleToday
    /\ userStates = <<>>
    /\ dateNow = 0
    /\ spc = "idle"
    /\ out = NoOut
    /\ sent = <<>>
    /\ update = None
    /\ stored \in InputRows
    /\ faults \in SUBSET {"select", "upsert"}
    /\ call \in InputSaves
    /\ frame = [t \in Tasks |-> UserSchedule(EmptyObject, EmptyObject)]
    /\ tpc = [t \in Tasks |-> "call"]
    /\ result = [t \in Tasks |-> "none"]

\* line 190: task t reads the schedules and waits for its upsert
SaveSelect(t) ==
    /\ tpc[t] = "call"
    /\ frame' = [frame EXCEPT ![t] = getUserSchedule(stored, call[t].userId, faults)]
    /\ tpc' = [tpc EXCEPT ![t] = "selected"]
    /\ UNCHANGED <<call, result, calendarVars, locals, parseVars, todayIndex,
                   picked, serviceVars>>

\* lines 191-219: task t builds the row from what it read and writes it
SaveUpsert(t) ==
    /\ tpc[t] = "selected"
    /\ \E run \in {upsert(stored, call[t].userId,
                          updatePayload(frame[t], call[t].weekType, call[t].day,
                                        call[t].lesson),
                          faults)} :
          /\ stored' = run.rows
          /\ result' = [result EXCEPT ![t] = IF run.threw THEN "threw" ELSE "saved"]
    /\ tpc' = [tpc EXCEPT ![t] = "done"]
    /\ UNCHANGED <<call, frame, calendarVars, locals, parseVars, todayIndex,
                   picked, userStates, dateNow, spc, out, sent, update, faults>>

NextDb ==
    \/ \E t \in Tasks : SaveSelect(t)
    \/ \E t \in Tasks : SaveUpsert(t)

SpecDb == InitDb /\ [][NextDb]_vars

-----------------------------------------------------------------------------
\* MessageHandler (src/src/handlers/messages.ts): a text message, and the
\* conversation state of its sender.

\* TelegramService.sendMessage: the message it was asked to send; its callers
\* read the field ok of what it returns (messages.ts lines 423-424), it does
\* not throw
sendMessage(message) == [ok |-> TRUE, message |-> message]

\* what a step of a handler leaves: whether it threw, the value it returned,
\* the message sent last and the rows of user_schedules
Outcome(threw, success, message, rows) ==
    [threw |-> threw, success |-> success, reply |-> sendMessage(message).message,
     rows |-> rows]

\* text.split('-').map(part => part.trim()), lines 121 and 250
SplitAndTrim(txt) ==
    LET ps == split(txt, "-") IN [i \in 1 .. Len(ps) |-> trim(ps[i])]

\* lines 249-256
isClassAdditionFormat(txt) ==
    LET Accepts(ps) ==
            /\ Len(ps) = 4
            /\ Len(ps[1]) > 0
            /\ isValidTimeFormat(ps[2])
            /\ isValidTimeFormat(ps[3])
            /\ Len(ps[4]) > 0
    IN  Accepts(SplitAndTrim(txt))

\* lines 313-316, on a string isValidTimeFormat accepts
parseTimeToMinutes(timeStr) ==
    LET hm == split(timeStr, ":")
    IN  ValueOfDigits(hm[1]) * 60 + ValueOfDigits(hm[2])

\* lines 110-155: handleLessonDetailsInput; destructuring an undefined
\* stateData (line 114) throws a TypeError
handleLessonDetailsInput(rows, userId, txt, stateData, fts) ==
    IF stateData = None
    THEN Outcome(TRUE, FALSE, "none", rows)
    ELSE IF ~isClassAdditionFormat(txt)
    THEN Outcome(FALSE, FALSE, "INVALID_FORMAT", rows)
    ELSE LET Saved(run) ==
                 IF run.threw
                 THEN Outcome(FALSE, TRUE, "ERROR_OCCURRED", rows)
                 ELSE Outcome(FALSE, TRUE, "CLASS_ADDED", run.rows)
             Details(lessonName, startTime, endTime, location) ==
                 IF ~isValidTimeFormat(startTime) \/ ~isValidTimeFormat(endTime)
                 THEN Outcome(FALSE, FALSE, "INVALID_TIME", rows)
                 ELSE IF parseTimeToMinutes(startTime) >= parseTimeToMinutes(endTime)
                 THEN Outcome(FALSE, FALSE, "INVALID_TIME_ORDER", rows)
                 ELSE Saved(saveUserSchedule(rows, userId, stateData[1].weekType,
                                             stateData[1].day,
                                             Lesson(lessonName, startTime, endTime,
                                                    location),
                                             fts))
             Parts(ps) == Details(ps[1], ps[2], ps[3], ps[4])
         IN  Parts(SplitAndTrim(txt))

\* lines 160-228: handleTeleportDateInput when the clock reads now; it
\* returns nothing and catches what lines 172-223 throw
handleTeleportDateInput(rows, txt, now) ==
    LET Target(targetDate) ==
            IF DateLte(targetDate, now)
            THEN Outcome(FALSE, FALSE, "TELEPORT_PAST", rows)
            ELSE Outcome(FALSE, FALSE,
                         MessageHandler_calculateWeekStatusForDate(targetDate), rows)
        Converted(gregorianArray) ==
            IF gregorianArray.kind = "throw"
            THEN Outcome(FALSE, FALSE, "ERROR_OCCURRED", rows)
            ELSE IF gregorianArray.kind # "triple"
            THEN Outcome(FALSE, FALSE, "TELEPORT_INVALID", rows)
            ELSE Target(DateUTC(gregorianArray.gy, gregorianArray.gm - 1,
                                gregorianArray.gd))
        Parsed(parsedDate) ==
            IF ~parsedDate.ok THEN Outcome(FALSE, FALSE, "TELEPORT_INVALID", rows)
            ELSE Converted(jalaliToGregorian(Int_(parsedDate.year),
                                             Int_(parsedDate.month),
                                             Int_(parsedDate.day)))
    IN  Parsed(parsePersianDate(txt))

\* lines 83-91: the flows that keep their own state (handleAIScheduleInput,
\* handleAILessonEditInput, handleBroadcastFlowMessage), as far as
\* handleStateBasedMessage sees them: they return or they throw
FlowNames == {"awaiting_schedule_text", "awaiting_ai_lesson_edit", "broadcast_flow"}
handleFlow(rows, fts) == Outcome("flow" \in fts, FALSE, "none", rows)

\* what handleStateBasedMessage or handleMessage leaves
Handled(route, states, outcome, caught) ==
    [route |-> route, userStates |-> states, stored |-> outcome.rows,
     reply |-> outcome.reply, caught |-> caught]

\* handleStateBasedMessage that clears the state only where line 96 does
handleStateBasedMessage_NoClearInCatch(m, rows, message, userState, now, fts) ==
    LET After(step) ==
            LET stateShouldBeCleared ==
                    /\ ~(userState.name = "awaiting_lesson_details" /\ ~step.success)
                    /\ userState.name \notin FlowNames
            IN  IF step.threw
                THEN Handled("handleStateBasedMessage", m,
                             Outcome(FALSE, FALSE, "ERROR_OCCURRED", step.rows), TRUE)
                ELSE Handled("handleStateBasedMessage",
                             IF stateShouldBeCleared
                             THEN deleteState(m, message.from) ELSE m,
                             step, FALSE)
    IN  After(IF userState.name = "awaiting_lesson_details"
              THEN handleLessonDetailsInput(rows, message.from, message.text,
                                            userState.data, fts)
              ELSE IF userState.name = "awaiting_teleport_date"
              THEN handleTeleportDateInput(rows, message.text, now)
              ELSE IF userState.name \in FlowNames THEN handleFlow(rows, fts)
              ELSE Outcome(FALSE, FALSE, "none", rows))

\* lines 71-104: handleStateBasedMessage
handleStateBasedMessage(m, rows, message, userState, now, fts) ==
    LET After(step) ==
            LET stateShouldBeCleared ==
                    /\ ~(userState.name = "awaiting_lesson_details" /\ ~step.success)
                    /\ userState.name \notin FlowNames
            IN  IF step.threw
                THEN Handled("handleStateBasedMessage", deleteState(m, message.from),
                             Outcome(FALSE, FALSE, "ERROR_OCCURRED", step.rows), TRUE)
                ELSE Handled("handleStateBasedMessage",
                             IF stateShouldBeCleared
                             THEN deleteState(m, message.from) ELSE m,
                             step, FALSE)
    IN  After(IF userState.name = "awaiting_lesson_details"
              THEN handleLessonDetailsInput(rows, message.from, message.text,
                                            userState.data, fts)
              ELSE IF userState.name = "awaiting_teleport_date"
              THEN handleTeleportDateInput(rows, message.text, now)
              ELSE IF userState.name \in FlowNames THEN handleFlow(rows, fts)
              ELSE Outcome(FALSE, FALSE, "none", rows))

\* lines 261-308: handleClassAddition on a text isClassAdditionFormat accepts
handleClassAddition(rows, txt) ==
    LET Times(startTime, endTime) ==
            IF parseTimeToMinutes(startTime) >= parseTimeToMinutes(endTime)
            THEN Outcome(FALSE, FALSE, "INVALID_TIME_ORDER", rows)
            ELSE Outcome(FALSE, FALSE, "use the menu", rows)
        Parts(ps) == Times(ps[2], ps[3])
    IN  Parts(SplitAndTrim(txt))

\* the chat of the administrator (config.ADMIN_CHAT_ID)
ADMIN_CHAT_ID == 1

\* lines 30-66: handleMessage on the StateService with the Map m, when
\* Date.now() is nowMs and new Date() is now
handleMessage(m, rows, message, now, nowMs, fts) ==
    IF message.text = <<>>
    THEN Handled("return", m, Outcome(FALSE, FALSE, "none", rows), FALSE)
    ELSE LET Routed(states, userState) ==
                 IF userState # None
                 THEN handleStateBasedMessage(states, rows, message, userState[1],
                                              now, fts)
                 ELSE IF isClassAdditionFormat(message.text)
                 THEN Handled("handleClassAddition", states,
                              handleClassAddition(rows, message.text), FALSE)
                 ELSE IF message.chat.id = ADMIN_CHAT_ID /\ message.reply_to_message
                 THEN Handled("handleBroadcastMessage", states,
                              Outcome(FALSE, FALSE, "broadcast", rows), FALSE)
                 ELSE IF message.chat.type = "private"
                 THEN Handled("default", states,
                              Outcome(FALSE, FALSE, "not understood", rows), FALSE)
                 ELSE Handled("default", states,
                              Outcome(FALSE, FALSE, "none", rows), FALSE)
             Got(run) == Routed(run.userStates, run.ret)
         IN  Got(getStateRun(m, message.from, nowMs))

\* the texts of the messages
\* "M-08:00-10:00-R": a lesson
TextLesson == <<"M", "-", "0", "8", ":", "0", "0", "-", "1", "0", ":", "0", "0", "-", "R">>
\* "M-10:00-08:00-R": a lesson that ends before it starts
TextWrongOrder == <<"M", "-", "1", "0", ":", "0", "0", "-", "0", "8", ":", "0", "0", "-", "R">>
\* "M-10:00-10:00-R": a lesson of no length
TextNoLength == <<"M", "-", "1", "0", ":", "0", "0", "-", "1", "0", ":", "0", "0", "-", "R">>
\* "M-25:00-10:00-R": a start time that is no time
TextBadTime == <<"M", "-", "2", "5", ":", "0", "0", "-", "1", "0", ":", "0", "0", "-", "R">>
\* "M-08:00-10:00": three parts
TextThreeParts == <<"M", "-", "0", "8", ":", "0", "0", "-", "1", "0", ":", "0", "0">>
\* "1404/01/01": a date after the clock of the messages
TextDate == <<"1", "4", "0", "4", "/", "0", "1", "/", "0", "1">>
\* "1403/01/01": a date before it
TextPastDate == <<"1", "4", "0", "3", "/", "0", "1", "/", "0", "1">>
\* "1404/13/01": no date
TextNoDate == <<"1", "4", "0", "4", "/", "1", "3", "/", "0", "1">>
\* "hi": none of these
TextOther == <<"h", "i">>

InputMessageTexts ==
    {<<>>, TextLesson, TextWrongOrder, TextNoLength, TextBadTime,
     TextThreeParts, TextDate, TextPastDate, TextNoDate, TextOther}

\* a message of user u, in the private chat or in a group
Message(u, chatType, txt, r) ==
    [from |-> u,
     chat |-> [id |-> IF chatType = "private" THEN u ELSE 100, type |-> chatType],
     text |-> txt, reply_to_message |-> r]

\* the states the sender is in when the message arrives: callbacks.ts lines
\* 427-431 and 676-679, the flows, a name no branch knows, and a state
\* without data
InputMessageStates ==
    {UserState(n, d, Some(FIVE_MINUTES)) :
        n \in {"awaiting_lesson_details", "awaiting_teleport_date", "unknown"}
              \cup FlowNames,
        d \in {None, Some([weekType |-> "odd", day |-> "saturday"])}}

\* a MessageHandler whose StateService holds a state of the sender, or none,
\* about to handle a message
InitMsg ==
    /\ IdleCalendar
    /\ IdleLocals
    /\ IdleConc
    /\ IdleParse
    /\ IdleToday
    /\ \E u \in Users, chatType \in {"private", "group"},
          t \in InputMessageTexts, r \in BOOLEAN :
          /\ update = Some(Message(u, chatType, t, r))
          /\ \/ userStates = <<>>
             \/ \E s \in InputMessageStates : userStates = setState(<<>>, u, s)
    /\ dateNow \in {0, FIVE_MINUTES, FIVE_MINUTES + 1}
    /\ spc = "idle"
    /\ out = NoOut
    /\ sent = <<>>
    /\ stored \in InputRows
    /\ faults \in SUBSET {"upsert", "flow"}

\* the clock of the messages: noon of 2025-02-08
MessageClock == MkDate(RefDay, 12 * 60 * 60 * 1000)

CallHandleMessage ==
    /\ spc = "idle"
    /\ \E run \in {handleMessage(userStates, stored, update[1], MessageClock,
                                 dateNow, faults)} :
          /\ userStates' = run.userStates
          /\ stored' = run.stored
          /\ out' = [user |-> update[1].from, state |-> MapGet(userStates, update[1].from),
                     flag |-> run.caught, route |-> run.route, reply |-> run.reply]
    /\ spc' = "handledMessage"
    /\ UNCHANGED <<calcVars, dateNow, sent, update, faults>>

NextMsg == CallHandleMessage

SpecMsg == InitMsg /\ [][NextMsg]_vars

-----------------------------------------------------------------------------
\* The Worker (src/src/index.ts) and the bot (src/src/bot.ts): every webhook
\* request is served by a TelegramBot made for it.

\* the requests of one run
MaxRequests == 3

\* bot.ts line 26: this.state = new StateService(), whose Map is empty
\* (part_004 line 7)
newStateService == <<>>

\* callbacks.ts lines 675-690: handleTeleportAskDate when Date.now() is nowMs
handleTeleportAskDate(m, userId, nowMs) ==
    setState(m, userId,
             UserState("awaiting_teleport_date", None, Some(nowMs + FIVE_MINUTES)))

\* callbacks.ts lines 1182-1191
handleCancelAction(m, userId) == deleteState(m, userId)

\* callbacks.ts lines 115-122: handleCallback on the data of the two buttons
handleCallback(m, rows, query, nowMs) ==
    IF query.data = "teleport:ask_date"
    THEN Handled("handleTeleportAskDate",
                 handleTeleportAskDate(m, query.from, nowMs),
                 Outcome(FALSE, FALSE, "TELEPORT_PROMPT", rows), FALSE)
    ELSE IF query.data = "cancel_action"
    THEN Handled("handleCancelAction", handleCancelAction(m, query.from),
                 Outcome(FALSE, FALSE, "cancelled", rows), FALSE)
    ELSE Handled("return", m, Outcome(FALSE, FALSE, "none", rows), FALSE)

\* a callback query and a message as updates
CallbackUpdate(u, data) ==
    [callback_query |-> Some([from |-> u, data |-> data]), message |-> None]
MessageUpdate(u, txt) ==
    [callback_query |-> None, message |-> Some(Message(u, "private", txt, FALSE))]

\* bot.ts lines 59-131: processUpdate of the bot whose StateService has the
\* Map m; a command is left to the CommandHandler
processUpdate(m, rows, upd, now, nowMs, fts) ==
    IF upd.callback_query # None
    THEN handleCallback(m, rows, upd.callback_query[1], nowMs)
    ELSE IF upd.message # None
    THEN IF upd.message[1].text # <<>> /\ Head(upd.message[1].text) = "/"
         THEN Handled("command", m, Outcome(FALSE, FALSE, "command", rows), FALSE)
         ELSE handleMessage(m, rows, upd.message[1], now, nowMs, fts)
    ELSE Handled("return", m, Outcome(FALSE, FALSE, "none", rows), FALSE)

\* index.ts lines 35 and 71-77: fetch makes a TelegramBot for the request
\* and hands the update to it
fetch(rows, upd, now, nowMs, fts) ==
    processUpdate(newStateService, rows, upd, now, nowMs, fts)

\* the time between a request and the one before
InputDelays == {0, TickMs, FIVE_MINUTES, FIVE_MINUTES + TickMs}

TextCommand == <<"/", "w", "e", "e", "k">>

InputUpdatesOf(u) ==
    {CallbackUpdate(u, "teleport:ask_date"), CallbackUpdate(u, "cancel_action"),
     MessageUpdate(u, TextDate), MessageUpdate(u, TextOther),
     MessageUpdate(u, TextCommand)}

\* what the log keeps of a request
Request(u, upd, at, handled) ==
    [user |-> u, update |-> upd, at |-> at, route |-> handled.route,
     reply |-> handled.reply]

InitBot ==
    /\ IdleCalendar
    /\ IdleLater

\* a POST to /webhook with the update upd of user u, delay after the
\* request before
Fetch(u, upd, delay) ==
    /\ Len(sent) < MaxRequests
    /\ dateNow' = dateNow + delay
    /\ \E run \in {fetch(stored, upd, MessageClock, dateNow', faults)} :
          /\ userStates' = run.userStates
          /\ stored' = run.stored
          /\ sent' = Append(sent, Request(u, upd, dateNow', run))
          /\ out' = [NoOut EXCEPT !.user = u, !.route = run.route,
                                  !.reply = run.reply]
    /\ update' = upd.message
    /\ UNCHANGED <<calcVars, faults>>

FetchCallback ==
    /\ \E u \in Users, delay \in InputDelays :
          \E upd \in {x \in InputUpdatesOf(u) : x.callback_query # None} :
             Fetch(u, upd, delay)
    /\ spc' = "callback"

FetchMessage ==
    /\ \E u \in Users, delay \in InputDelays :
          \E upd \in {x \in InputUpdatesOf(u) : x.message # None} :
             Fetch(u, upd, delay)
    /\ spc' = "message"

NextBot ==
    \/ FetchCallback
    \/ FetchMessage

SpecBot == InitBot /\ [][NextBot]_vars

-----------------------------------------------------------------------------
\* Reference calendar arithmetic the claims are stated against: days are
\* counted from the anchor 1403/11/20 = 2025-02-08.

RefJalaliLeap(y) == (y % 33) \in {1, 5, 9, 13, 17, 22, 26, 30}

RefJalaliMonthLength(y, m) ==
    IF m <= 6 THEN 31
    ELSE IF m <= 11 THEN 30
    ELSE IF RefJalaliLeap(y) THEN 30 ELSE 29

\* the number of leap years among the Jalali years 0 .. y - 1: 8 in every
\* 33 years
RefLeapsBefore(y) ==
    8 * (y \div 33) + Cardinality({r \in {1, 5, 9, 13, 17, 22, 26, 30} : r < y % 33})

\* days of the Jalali years 1200 .. y - 1
RefDaysBeforeYear(y) ==
    365 * (y - 1200) + RefLeapsBefore(y) - RefLeapsBefore(1200)

\* days of the months before month m, plus d
RefDayOfYear(m, d) == (IF m <= 6 THEN (m - 1) * 31 ELSE 186 + (m - 7) * 30) + d

\* the UTC day number of the Jalali date y/m/d
RefJalaliDayNumber(y, m, d) ==
    RefDay + (RefDaysBeforeYear(y) + RefDayOfYear(m, d))
           - (RefDaysBeforeYear(1403) + RefDayOfYear(11, 20))

\* the Gregorian date of the Jalali date y/m/d, months counted from 1
RefGregorian(y, m, d) ==
    LET c == CivilFromDays(RefJalaliDayNumber(y, m, d))
    IN Triple(c[1], c[2], c[3])

\* the Saturday-to-Friday week of a UTC day number, counted from the week of
\* the reference (week 0); 2025-02-08 is a Saturday
RefWeekIndex(day) == (day - RefDay) \div 7

\* the Tehran calendar day (as a UTC day number) of an instant
RefTehranDay(now) == now.day + (IF now.ms >= MS_PER_DAY - TehranOffsetMs THEN 1 ELSE 0)

PlusDays(d, n) == MkDate(d.day + n, d.ms)

-----------------------------------------------------------------------------
\* Claims.

\* C1: for every Jalali date that isValidPersianDate accepts, jalaliToGregorian
\* returns the Gregorian date of the same day, as counted from the anchor
\* 1403/11/20 = 2025-02-08 with the 33-year Jalali leap rule.
C1_ConversionMatchesReference ==
    (pc = "converted" /\ isValidPersianDate(jy, jm, jd))
        => greg = RefGregorian(jy.v, jm.v, jd.v)

\* C2: jalaliToGregorian maps 1403/01/01 to 2024-03-20 and 1400/06/31 to
\* 2021-09-22.
C2_KnownPairs ==
    pc = "converted" =>
        /\ (jy = Int_(1403) /\ jm = Int_(1) /\ jd = Int_(1))
              => greg = Triple(2024, 3, 20)
        /\ (jy = Int_(1400) /\ jm = Int_(6) /\ jd = Int_(31))
              => greg = Triple(2021, 9, 22)

\* C3: isValidPersianDate returns true exactly for integers y, m, d with
\* 1300 <= y <= 1500, 1 <= m <= 12 and 1 <= d <= L(y, m).
C3_ValidExactly ==
    pc = "validated" =>
        (valid <=> /\ jy.k = "int" /\ jm.k = "int" /\ jd.k = "int"
                   /\ 1300 <= jy.v /\ jy.v <= 1500
                   /\ 1 <= jm.v /\ jm.v <= 12
                   /\ 1 <= jd.v /\ jd.v <= RefJalaliMonthLength(jy.v, jm.v))

\* a leap year's 30 Esfand was accepted
C3_Witness ==
    /\ pc = "validated"
    /\ valid
    /\ jm = Int_(12)
    /\ jd = Int_(30)

\* C4: the week status has period exactly two weeks: the status of a day and
\* of the day 14 days later agree, the status of a day and of the day 7 days
\* later differ, for calculateWeekStatusForDate on UTC midnights and for
\* getWeekStatus.
C4_PeriodTwoWeeks ==
    /\ (pc = "calculated" /\ date.ms = 0) =>
          /\ calculateWeekStatusForDate(PlusDays(date, 14)) = status
          /\ calculateWeekStatusForDate(PlusDays(date, 7)) # status
    /\ pc = "gotStatus" =>
          /\ getWeekStatus(PlusDays(date, 14)) = status
          /\ getWeekStatus(PlusDays(date, 7)) # status

\* a midnight before the reference whose week is even
C4_Witness ==
    /\ pc = "calculated"
    /\ date.ms = 0
    /\ date.day < RefDay - 7
    /\ status = ZOJ

\* C5: a target n >= 1 whole weeks before the reference week has the
\* reference status iff n is even; the week just before the reference week
\* has the flipped status.
C5_NegativeOffsets ==
    /\ (pc = "calculated" /\ date.ms = 0 /\ RefWeekIndex(date.day) < 0) =>
          (status = REFERENCE_STATUS <=> RefWeekIndex(date.day) % 2 = 0)
    /\ (pc = "gotStatus" /\ RefWeekIndex(RefTehranDay(date)) < 0) =>
          (status = REFERENCE_STATUS <=> RefWeekIndex(RefTehranDay(date)) % 2 = 0)

\* the Friday that ends the week before the reference week was computed, and
\* came out flipped
C5_Witness ==
    /\ pc = "calculated"
    /\ date = MkDate(RefDay - 1, 0)
    /\ status # REFERENCE_STATUS

\* C6: every target day in the reference's own Saturday-to-Friday week gets
\* REFERENCE_STATUS from calculateWeekStatusForDate.
C6_ReferenceWeek ==
    (pc = "calculated" /\ date.day \in RefDay .. (RefDay + 6))
        => status = REFERENCE_STATUS

\* the Friday of the reference week was computed
C6_Witness ==
    /\ pc = "calculated"
    /\ date.day = RefDay + 6
    /\ status = FARD

\* C7: getStartOfWeekPersian is idempotent (both copies).
C7_Idempotent ==
    /\ pc = "weekStart" => getStartOfWeekPersian(weekStart) = weekStart
    /\ pc = "weekStartCmd" => CommandHandler_getStartOfWeekPersian(weekStart) = weekStart

\* the function moved its input, which was not a week start
C7_Witness ==
    /\ pc = "weekStart"
    /\ weekStart.day < date.day
    /\ date.ms # 0

\* C8: the result of getStartOfWeekPersian is a Saturday at UTC 00:00:00.000
\* (day 0 of the count, 1970-01-01, was a Thursday).
C8_SaturdayMidnight ==
    pc = "weekStart" => ((weekStart.day + 4) % 7 = 6 /\ weekStart.ms = 0)

\* a Friday 23:59:59.999 was mapped six days back
C8_Witness ==
    /\ pc = "weekStart"
    /\ date.ms = MS_PER_DAY - 1
    /\ weekStart.day = date.day - 6

\* C9: jalaliToGregorian returns null for every triple isValidPersianDate
\* rejects.
C9_NullWhenInvalid ==
    (pc = "converted" /\ ~isValidPersianDate(jy, jm, jd)) => greg = NULL

\* C10: jalaliToGregorian returns null when an argument is not a finite
\* number, no exception leaves it, and its result is null or a triple of
\* integers.
C10_Total ==
    pc = "converted" =>
        /\ greg.kind \in {"null", "triple"}
        /\ (\E x \in {jy, jm, jd} : x.k \in {"nan", "inf"}) => greg = NULL
        /\ greg.kind = "triple" => (greg.gy \in Int /\ greg.gm \in Int /\ greg.gd \in Int)

\* NaN was passed as the month and null came back
C10_Witness ==
    /\ pc = "converted"
    /\ jy = Int_(1403)
    /\ jm = NaN
    /\ greg = NULL

\* C11: isValidPersianDate returns a boolean for every input, and false for
\* non-integers, a year outside 1300..1500, a month outside 1..12 and a day
\* below 1.
C11_FalseOutsideDomain ==
    pc = "validated" =>
        /\ valid \in BOOLEAN
        /\ (\/ \E x \in {jy, jm, jd} : x.k # "int"
            \/ jy.v < 1300 \/ jy.v > 1500
            \/ jm.v < 1 \/ jm.v > 12
            \/ jd.v < 1) => valid = FALSE

\* a non-integer year with an otherwise acceptable month and day was rejected
C11_Witness ==
    /\ pc = "validated"
    /\ jy = Frac(1403)
    /\ jm = Int_(6)
    /\ jd = Int_(6)
    /\ valid = FALSE

\* C12: when the reference converts, calculateWeekStatusForDate and
\* getWeekStatus return one of the two week labels and nothing else.
C12_TwoValues ==
    (pc \in {"calculated", "gotStatus"} /\ ReferenceGregorianArray.kind = "triple")
        => status \in {FARD, ZOJ}

\* C13: when the reference does not convert, calculateWeekStatusForDate and
\* getWeekStatus return the error label, never a week label, and handleWeek
\* reports an error instead of a week status.
C13_ErrorSentinel ==
    (pc \in {"cfgCalculated", "cfgGotStatus", "cfgHandledWeek"}
        /\ \E x \in {jy, jm, jd} : x.k \in {"nan", "inf"})
        => /\ status \notin {FARD, ZOJ}
           /\ status = ERROR_STATUS
           /\ pc = "cfgHandledWeek" => reply = "error"

\* C14: the month jalaliToGregorian returns is counted from 0 (January 0,
\* December 11).
C14_MonthZeroIndexed ==
    (pc = "converted" /\ isValidPersianDate(jy, jm, jd))
        => greg.gm = RefGregorian(jy.v, jm.v, jd.v).gm - 1

\* C14 as amended: the month is counted from 1. Either the result is the
\* degenerate [gy, 0, 0], or its month is in 1..12, the triple read with that
\* month counted from 1 is a date of the calendar, and that date is the true
\* day or the day before it.
C14_MonthOneIndexed ==
    (pc = "converted" /\ isValidPersianDate(jy, jm, jd)) =>
        \/ greg.gm = 0 /\ greg.gd = 0
        \/ /\ greg.gm \in 1 .. 12
           /\ CivilFromDays(DaysFromCivil(greg.gy, greg.gm, greg.gd))
                 = <<greg.gy, greg.gm, greg.gd>>
           /\ RefJalaliDayNumber(jy.v, jm.v, jd.v)
                 - DaysFromCivil(greg.gy, greg.gm, greg.gd) \in {0, 1}

\* a day of January came back with month 1, a day of December with month 12
C14_Witness ==
    /\ pc = "converted"
    /\ isValidPersianDate(jy, jm, jd)
    /\ jy = Int_(1403)
    /\ \/ RefGregorian(jy.v, jm.v, jd.v).gm = 1 /\ greg.gm = 1
       \/ RefGregorian(jy.v, jm.v, jd.v).gm = 12 /\ greg.gm = 12

\* the status of the Saturday-to-Friday week of a UTC day number
RefStatusOfDay(day) == IF RefWeekIndex(day) % 2 = 0 THEN FARD ELSE ZOJ

\* C15: the week status /teleport reports for a valid future Jalali date is
\* the status of the week that holds the date's true Gregorian day.
C15_TeleportStatus ==
    (pc = "teleported" /\ isValidPersianDate(jy, jm, jd) /\ reply = "teleport")
        => status = RefStatusOfDay(RefJalaliDayNumber(jy.v, jm.v, jd.v))

\* Cross-check: /teleport reports the right status whenever the true
\* Gregorian year is not a multiple of 4.
TeleportRightOutsideYearsDivisibleBy4 ==
    (pc = "teleported" /\ isValidPersianDate(jy, jm, jd) /\ reply = "teleport"
        /\ RefGregorian(jy.v, jm.v, jd.v).gy % 4 # 0)
        => status = RefStatusOfDay(RefJalaliDayNumber(jy.v, jm.v, jd.v))

\* C16: for every UTC-midnight target date the message handler's
\* calculateWeekStatusForDate returns what the command handler's returns.
C16_SameAsCommandHandler ==
    (pc = "calculatedMsg" /\ date.ms = 0)
        => status = calculateWeekStatusForDate(date)

\* a midnight before the message handler's own reference (2024-02-10), in an
\* even week
C16_Witness ==
    /\ pc = "calculatedMsg"
    /\ date.ms = 0
    /\ date.day < RefDay - 364
    /\ status = ZOJ

\* C18: getStartOfWeekPersian(d) is UTC midnight of the day that lies
\* (UTC weekday of d + 1) mod 7 days before d's UTC day (weekday 0 = Sunday;
\* day 0 of the count was a Thursday); it is never after d and less than seven
\* days before it.
C18_DaysSubtracted ==
    pc \in {"weekStart", "weekStartCmd"} =>
        /\ weekStart = MkDate(date.day - ((((date.day + 4) % 7) + 1) % 7), 0)
        /\ DateLte(weekStart, date)
        /\ (date.day - weekStart.day) * MS_PER_DAY + (date.ms - weekStart.ms)
              < 7 * MS_PER_DAY

\* a Sunday afternoon was mapped one day back, a Saturday midnight to itself
C18_Witness ==
    /\ pc = "weekStart"
    /\ \/ (date.day + 4) % 7 = 0 /\ date.ms > 0 /\ weekStart.day = date.day - 1
       \/ (date.day + 4) % 7 = 6 /\ date.ms = 0 /\ weekStart = date

\* C19: getStartOfWeekPersian leaves its argument as it was and returns
\* another Date object (both copies).
C19_ArgumentUntouched ==
    [][(pc' \in {"weekStart", "weekStartCmd"}) => (date' = date /\ fresh')]_vars

\* the returned object differs in value from the argument, which is therefore
\* seen to have kept its value
C19_Witness ==
    /\ pc \in {"weekStart", "weekStartCmd"}
    /\ fresh
    /\ weekStart.day < date.day
    /\ weekStart.ms < date.ms

\* C20: the reference instant getWeekStatus and calculateWeekStatusForDate
\* build from the anchor 1403/11/20 is UTC midnight of 2025-02-08, a Saturday;
\* both copies of getStartOfWeekPersian map it to itself; and the triple it is
\* built from names that day with its month counted from 1, which is what the
\* callers' "- 1" undoes.
C20_ReferenceInstant ==
    pc \in {"calculated", "gotStatus"} =>
        LET g == ReferenceGregorianArray
            ref == ReferenceDateGregorian(g)
        IN /\ g.kind = "triple"
           /\ ref = MkDate(DaysFromCivil(2025, 2, 8), 0)
           /\ (ref.day + 4) % 7 = 6
           /\ getStartOfWeekPersian(ref) = ref
           /\ CommandHandler_getStartOfWeekPersian(ref) = ref
           /\ CivilFromDays(ref.day) = <<g.gy, g.gm, g.gd>>

\* the status of the reference instant itself was computed
C20_Witness ==
    /\ pc = "calculated"
    /\ date = MkDate(DaysFromCivil(2025, 2, 8), 0)
    /\ date = ReferenceDateGregorian(ReferenceGregorianArray)
    /\ status = REFERENCE_STATUS

\* C21: the three functions keep no shared mutable state: however the
\* statements of two concurrent calls interleave, each call returns what it
\* returns when it runs alone on the same inputs.
C21_SameAsAlone ==
    \A t \in Tasks : tpc[t] = "done" => result[t] = Alone(call[t])

\* two calls of the same function on different inputs have both returned,
\* with different results
C21_Witness ==
    /\ \A t \in Tasks : tpc[t] = "done"
    /\ call[1].fn = call[2].fn
    /\ call[1] # call[2]
    /\ result[1] # result[2]

\* whether rule 1 (YYYY/MM/DD) and rule 3 (YYYY/DD/MM) of parsePersianDate
\* accept the numbers a, b, c
Rule1Matches(a, b, c) ==
    a >= 1300 /\ a <= 1500 /\ b >= 1 /\ b <= 12 /\ c >= 1 /\ c <= 31
Rule3Matches(a, b, c) ==
    a >= 1300 /\ a <= 1500 /\ c >= 1 /\ c <= 12 /\ b >= 1 /\ b <= 31

\* C22: when the three numbers p1, p2, p3 satisfy 1300 <= p1 <= 1500,
\* 1 <= p2 <= 12 and 1 <= p3 <= 31 the input is read as year p1, month p2,
\* day p3, whatever other rule matches too; and when that reading is not a
\* valid Jalali date the result is null.
C22_FirstRuleWins ==
    (parsed # NotParsed /\ Len(parts) = 3
       /\ \A i \in 1 .. 3 : parts[i].k = "int") =>
        (Rule1Matches(parts[1].v, parts[2].v, parts[3].v) =>
            IF isValidPersianDate(parts[1], parts[2], parts[3])
            THEN parsed = PersianDate(parts[1].v, parts[2].v, parts[3].v)
            ELSE parsed = NoPersianDate)

\* an input that rule 3 accepts too, with another month, was read by rule 1
C22_Witness ==
    /\ parsed # NotParsed
    /\ Len(parts) = 3
    /\ \A i \in 1 .. 3 : parts[i].k = "int"
    /\ Rule1Matches(parts[1].v, parts[2].v, parts[3].v)
    /\ Rule3Matches(parts[1].v, parts[2].v, parts[3].v)
    /\ parts[2] # parts[3]
    /\ parsed = PersianDate(parts[1].v, parts[2].v, parts[3].v)

\* C23: every non-null result of parsePersianDate satisfies
\* isValidPersianDate, and parsePersianDate returns (null or a date) on every
\* input.
C23_ResultValid ==
    parsed # NotParsed =>
        \/ parsed = NoPersianDate
        \/ /\ parsed.ok
           /\ isValidPersianDate(Int_(parsed.year), Int_(parsed.month),
                                 Int_(parsed.day))

\* a date was returned for a two-digit year, and null for day 31 of month 12
C23_Witness ==
    /\ parsed # NotParsed
    /\ Len(parts) = 3
    /\ \/ parsed.ok /\ parts[1] = Int_(99) /\ parsed.year = 1499
       \/ ~parsed.ok /\ parts = <<Int_(1403), Int_(12), Int_(31)>>

\* C24: in the parity computation the target's week start and the
\* reference's week start differ by an exact multiple of 7 * MS_PER_DAY
\* milliseconds (equal times of day, day numbers a multiple of 7 apart), so
\* daysDifference is that number of days, a multiple of 7, and weeksPassed
\* times 7 gives it back: neither floor discards a remainder.
C24_WholeWeeks ==
    (pc \in {"calculated", "gotStatus"} /\ locals.computed) =>
        /\ locals.currentWeekStartDate.ms = locals.referenceWeekStartDate.ms
        /\ (locals.currentWeekStartDate.day - locals.referenceWeekStartDate.day) % 7 = 0
        /\ locals.daysDifference
              = locals.currentWeekStartDate.day - locals.referenceWeekStartDate.day
        /\ 7 * locals.weeksPassed = locals.daysDifference

\* a target in the afternoon three weeks before the reference week
C24_Witness ==
    /\ pc = "calculated"
    /\ locals.computed
    /\ date.ms > 0
    /\ locals.weeksPassed = -3
    /\ locals.daysDifference = -21

\* C25: getWeekStatus and the command handler's calculateWeekStatusForDate
\* are the same function of the calendar day: getWeekStatus at an instant
\* whose Tehran date is d returns the string calculateWeekStatusForDate
\* returns for UTC midnight of d.
C25_SameString ==
    pc = "gotStatus" =>
        status = calculateWeekStatusForDate(MkDate(RefTehranDay(date), 0))

\* the same week, flipped or not, is found by both functions: they agree on
\* whether the status is the reference's own label
SameParityFromBothSources ==
    pc = "gotStatus" =>
        ((status = REFERENCE_STATUS)
            <=> (calculateWeekStatusForDate(MkDate(RefTehranDay(date), 0))
                    = REFERENCE_STATUS))

\* the index (0 = Saturday .. 6 = Friday) of the weekday of UTC day number day
RefPersianWeekdayIndex(day) == (((day + 4) % 7) + 1) % 7

\* C26: the weekday index handleToday, handleWeek and handleMenuWeekStatus
\* pick today's lessons with is the weekday of the Tehran civil date from
\* which getWeekStatus derived the week status, at every instant.
C26_WeekdayOfTehranDate ==
    pc \in {"handledToday", "handledWeek", "handledMenu"} =>
        todayIndex = RefPersianWeekdayIndex(RefTehranDay(date))

\* the schedule the three handlers read today's lessons from is the one of
\* the week of the Tehran date
PickedScheduleOfTheWeek ==
    pc \in {"handledToday", "handledWeek", "handledMenu"} =>
        picked = (IF RefWeekIndex(RefTehranDay(date)) % 2 = 0
                  THEN "odd_week_schedule" ELSE "even_week_schedule")

\* length of a Gregorian month (1..12) of year y
RefGregorianMonthLength(y, m) ==
    IF m = 2
    THEN IF (y % 4 = 0 /\ y % 100 # 0) \/ y % 400 = 0 THEN 29 ELSE 28
    ELSE IF m \in {4, 6, 9, 11} THEN 30 ELSE 31

\* C17: for a valid Jalali date the returned triple is well formed: month in
\* 1..12 and day between 1 and the length of that Gregorian month.
C17_WellFormedTriple ==
    (pc = "converted" /\ isValidPersianDate(jy, jm, jd))
        => /\ greg.kind = "triple"
           /\ greg.gm \in 1..12
           /\ greg.gd >= 1
           /\ greg.gd <= RefGregorianMonthLength(greg.gy, greg.gm)

\* Cross-check of the model against the reference: the conversion is right
\* whenever the true Gregorian year is not a multiple of 4.
ConversionRightOutsideYearsDivisibleBy4 ==
    (pc = "converted" /\ isValidPersianDate(jy, jm, jd)
        /\ RefGregorian(jy.v, jm.v, jd.v).gy % 4 # 0)
        => greg = RefGregorian(jy.v, jm.v, jd.v)

\* ... and off whenever it is one.
ConversionWrongInYearsDivisibleBy4 ==
    (pc = "converted" /\ isValidPersianDate(jy, jm, jd)
        /\ RefGregorian(jy.v, jm.v, jd.v).gy % 4 = 0)
        => greg # RefGregorian(jy.v, jm.v, jd.v)

\* C28: in StateService, for every user and at every time, hasPendingState
\* is true if and only if getState returns a state; an expired state is
\* never reported as pending.
C28_PendingIffState ==
    \A u \in Users :
        hasPendingState(userStates, u) <=> getState(userStates, u, dateNow) # None

\* the part of C28 the Map guarantees: a user getState finds a state for is
\* reported as pending
PendingWhenStateFound ==
    \A u \in Users :
        getState(userStates, u, dateNow) # None => hasPendingState(userStates, u)

\* the lessons of a row: the list of one day of one week
LessonsOf(row, weekType, day) ==
    LET schedule == IF weekType = "odd" THEN row.odd_week_schedule
                                        ELSE row.even_week_schedule
    IN  IF day \in DOMAIN schedule THEN schedule[day] ELSE <<>>

IsSortedByStartTime(lessons) ==
    \A i, j \in 1 .. Len(lessons) : i < j => SortKey(lessons[i]) <= SortKey(lessons[j])

\* C30: after two saveUserSchedule calls for the same user, interleaved at
\* their awaits, the stored schedule contains both added lessons, and the
\* lessons of every day are sorted by start time.
C30_BothLessonsStored ==
    (faults = {} /\ \A t \in Tasks : tpc[t] = "done") =>
        /\ \A t \in Tasks :
              IsIn(call[t].lesson,
                   LessonsOf(stored[call[t].userId], call[t].weekType, call[t].day))
        /\ \A w \in {"odd", "even"} :
              \A i \in 1 .. Len(ENGLISH_WEEKDAYS) :
                 IsSortedByStartTime(LessonsOf(stored[1], w, ENGLISH_WEEKDAYS[i]))

\* the part of C30 that holds: the lessons of every day of a stored row are
\* sorted by start time
EveryDaySorted ==
    \A u \in DOMAIN stored :
        \A w \in {"odd", "even"} :
           \A i \in 1 .. Len(ENGLISH_WEEKDAYS) :
              IsSortedByStartTime(LessonsOf(stored[u], w, ENGLISH_WEEKDAYS[i]))

\* without an error from Supabase, a call that ran alone stored its lesson
StoredWhenAlone ==
    \A t \in Tasks :
        (faults = {} /\ tpc[t] = "done"
            /\ \A o \in Tasks \ {t} : tpc[o] = "call") =>
        IsIn(call[t].lesson,
             LessonsOf(stored[call[t].userId], call[t].weekType, call[t].day))

C27_StateVisibleInNextRequest ==
    \A i, j \in 1 .. Len(sent) :
        (/\ i < j
         /\ sent[i].update = CallbackUpdate(sent[i].user, "teleport:ask_date")
         /\ sent[j].user = sent[i].user
         /\ \A k \in (i + 1) .. (j - 1) : sent[k].user # sent[i].user
         /\ sent[j].update.message # None
         /\ sent[j].update.message[1].text \in {TextDate, TextOther}
         /\ sent[j].at <= sent[i].at + FIVE_MINUTES)
        => sent[j].route = "handleStateBasedMessage"

\* what C27 needs and the bot does within one StateService: a message that
\* finds a state of its sender that has not expired goes to
\* handleStateBasedMessage
StateFoundIsRouted ==
    (spc = "handledMessage" /\ out.state # None /\ update[1].text # <<>>
        /\ (out.state[1].expireAt = None \/ dateNow <= out.state[1].expireAt[1]))
    => out.route = "handleStateBasedMessage"

====
